---------------------------- MODULE Spec2Model ----------------------------
(***************************************************************************)
(* State-machine model of the FINMA LCR data generator                     *)
(* (src/lcr_data_generator.py): the command-line entry point main, the     *)
(* generator object FINMALCRDataGenerator, its two samplers                *)
(* generate_hqla_holdings and generate_deposit_balances, and the driver    *)
(* generate_time_series with the CSV files it writes.                      *)
(*                                                                         *)
(* Representation choices                                                  *)
(*  - Text is a sequence of pieces: an asset type code is the sequence of  *)
(*    its '_'-separated words, a formatted number is its sequence of       *)
(*    decimal digits.  None is the empty sequence <<>>, a present optional *)
(*    value v is <<v>>.                                                    *)
(*  - A float is the IEEE 754 double the code computes, <<sign, m, e>>     *)
(*    for sign * m * 2^e, and its arithmetic rounds as the double's does;  *)
(*    an amount rounded to 2 decimals is a pair <<units, cents>>.          *)
(*    Weights, probabilities and haircuts are integer percentages; the FX  *)
(*    rates are kept as integers in 1/10000 and made floats where used.    *)
(*  - numpy's Generator is a 15-bit linear congruential stream: every      *)
(*    draw advances the state once and the draw's value is a function of   *)
(*    the new state alone.  A draw of rng.random() is a double of [0, 1):  *)
(*    a multiple of 1/256 or, next to 0.6, a double off that grid.         *)
(***************************************************************************)
EXTENDS Integers, Sequences, FiniteSets, TLC

(***************************************************************************)
(* Bounds of the model.                                                    *)
(***************************************************************************)
MaxSeed == 2
MaxDays == 2

None == <<>>
Some(v) == <<v>>

(***************************************************************************)
(* Generic helpers.                                                        *)
(***************************************************************************)
Min(a, b) == IF a < b THEN a ELSE b
Abs(a) == IF a < 0 THEN 0 - a ELSE a

RECURSIVE GCD(_, _)
GCD(a, b) == IF b = 0 THEN a ELSE GCD(b, a % b)

RECURSIVE SumSeq(_)
SumSeq(s) == IF s = <<>> THEN 0 ELSE Head(s) + SumSeq(Tail(s))

Contains(word, code) == \E i \in 1..Len(code) : code[i] = word

Range(seq) == {seq[k] : k \in 1..Len(seq)}
Last(seq) == seq[Len(seq)]

RECURSIVE Digits(_)
Digits(n) == IF n < 10 THEN <<n>> ELSE Append(Digits(n \div 10), n % 10)

RECURSIVE ZeroPad(_, _)
ZeroPad(ds, width) == IF Len(ds) >= width THEN ds ELSE ZeroPad(<<0>> \o ds, width)

\* f"{n:0{width}d}": the decimal digits of n, zero-padded to at least width.
Fmt(n, width) == ZeroPad(Digits(n), width)

RECURSIVE ParseInt(_)
ParseInt(ds) == IF ds = <<>> THEN 0 ELSE 10 * ParseInt(SubSeq(ds, 1, Len(ds) - 1)) + ds[Len(ds)]

(***************************************************************************)
(* Naturals beyond 32 bits: the sequence of their digits in base 16384,    *)
(* lowest first and without leading zeros; 0 is <<>>.                      *)
(***************************************************************************)
PowersOfTwo == <<1, 2, 4, 8, 16, 32, 64, 128, 256, 512, 1024, 2048, 4096, 8192, 16384>>
Pow2(n) == PowersOfTwo[n + 1]

Limb(a, i) == IF i >= 1 /\ i <= Len(a) THEN a[i] ELSE 0

RECURSIVE BigTrim(_)
BigTrim(a) ==
    IF a = <<>> \/ a[Len(a)] # 0 THEN a ELSE BigTrim(SubSeq(a, 1, Len(a) - 1))

\* The number with the digit sums cols, each below 2^31 - 2^17 in size.
RECURSIVE BigCarry(_, _)
BigCarry(cols, carry) ==
    IF cols = <<>>
    THEN IF carry = 0 THEN <<>> ELSE <<carry % 16384>> \o BigCarry(<<>>, carry \div 16384)
    ELSE LET t == cols[1] + carry
         IN <<t % 16384>> \o BigCarry(Tail(cols), t \div 16384)

BigOfInt(n) == BigCarry(<<>>, n)

RECURSIVE BigToInt(_)
BigToInt(a) == IF a = <<>> THEN 0 ELSE a[1] + 16384 * BigToInt(Tail(a))

BigAdd(a, b) ==
    BigCarry([i \in 1..(IF Len(a) > Len(b) THEN Len(a) ELSE Len(b)) |->
                Limb(a, i) + Limb(b, i)], 0)

\* a - b for a >= b.
BigSub(a, b) == BigTrim(BigCarry([i \in 1..Len(a) |-> a[i] - Limb(b, i)], 0))

\* a * k for k <= 65536.
BigMulSmall(a, k) == BigTrim(BigCarry([i \in 1..Len(a) |-> a[i] * k], 0))

\* a * b for a of at most four digits.
BigMul(a, b) ==
    IF a = <<>> \/ b = <<>> THEN <<>>
    ELSE BigTrim(BigCarry([k \in 1..(Len(a) + Len(b) - 1) |->
                              Limb(a, 1) * Limb(b, k) + Limb(a, 2) * Limb(b, k - 1)
                              + Limb(a, 3) * Limb(b, k - 2) + Limb(a, 4) * Limb(b, k - 3)],
                          0))

\* -1, 0 or 1 as a < b, a = b or a > b.
RECURSIVE BigCmp(_, _)
BigCmp(a, b) ==
    IF Len(a) # Len(b) THEN (IF Len(a) < Len(b) THEN 0 - 1 ELSE 1)
    ELSE IF a = <<>> THEN 0
    ELSE IF a[Len(a)] # b[Len(b)] THEN (IF a[Len(a)] < b[Len(b)] THEN 0 - 1 ELSE 1)
    ELSE BigCmp(SubSeq(a, 1, Len(a) - 1), SubSeq(b, 1, Len(b) - 1))

\* The number of bits of a digit.
BitLength(n) ==
    IF n < 128
    THEN IF n < 8 THEN (IF n < 2 THEN n ELSE IF n < 4 THEN 2 ELSE 3)
         ELSE IF n < 32 THEN (IF n < 16 THEN 4 ELSE 5)
         ELSE IF n < 64 THEN 6 ELSE 7
    ELSE IF n < 2048 THEN (IF n < 512 THEN (IF n < 256 THEN 8 ELSE 9)
                           ELSE IF n < 1024 THEN 10 ELSE 11)
         ELSE IF n < 8192 THEN (IF n < 4096 THEN 12 ELSE 13)
         ELSE 14

BigBitLen(a) == IF a = <<>> THEN 0 ELSE 14 * (Len(a) - 1) + BitLength(a[Len(a)])

\* a * 2^n
BigShiftLeft(a, n) == [i \in 1..(n \div 14) |-> 0] \o BigMulSmall(a, Pow2(n % 14))

\* floor(a / 2^n)
BigShiftRight(a, n) ==
    LET kept == SubSeq(a, (n \div 14) + 1, Len(a))
        b == n % 14
    IN BigTrim([i \in 1..Len(kept) |->
                   (kept[i] \div Pow2(b)) + (Limb(kept, i + 1) % Pow2(b)) * Pow2(14 - b)]
               \o <<>>)

\* Bit p of a (bit 0 the lowest), and whether a bit below p is set.
BigBit(a, p) == (Limb(a, (p \div 14) + 1) \div Pow2(p % 14)) % 2
BigLowNonZero(a, p) ==
    \/ \E i \in 1..(p \div 14) : Limb(a, i) # 0
    \/ Limb(a, (p \div 14) + 1) % Pow2(p % 14) # 0

\* <<floor(a / d), a % d>> for 0 < d < 2^17, the remainder an integer.
RECURSIVE BigDivSmallDigits(_, _)
BigDivSmallDigits(a, d) ==
    IF a = <<>> THEN <<<<>>, 0>>
    ELSE LET high == BigDivSmallDigits(Tail(a), d)
             t == high[2] * 16384 + a[1]
         IN <<<<t \div d>> \o high[1], t % d>>

BigDivSmall(a, d) ==
    LET qr == BigDivSmallDigits(a, d) IN <<BigTrim(qr[1]), qr[2]>>

\* <<q + floor(r / d), r % d>> for d > 0 of at most four digits: long
\* division, each turn taking from r a multiple of d that an estimate from
\* the leading bits of r and d shows to fit.
RECURSIVE BigDivLoop(_, _, _)
BigDivLoop(r, d, q) ==
    IF BigCmp(r, d) < 0 THEN <<q, r>>
    ELSE LET sd == IF BigBitLen(d) > 15 THEN BigBitLen(d) - 15 ELSE 0
             sr == IF BigBitLen(r) > 29 THEN BigBitLen(r) - 29 ELSE 0
             dtop == BigToInt(BigShiftRight(d, sd)) + (IF sd > 0 THEN 1 ELSE 0)
             rtop == BigToInt(BigShiftRight(r, sr))
             qhat == rtop \div dtop
             fits == IF sr >= sd THEN BigShiftLeft(BigOfInt(qhat), sr - sd)
                     ELSE BigOfInt(qhat \div Pow2(sd - sr))
             step == IF fits = <<>> THEN <<1>> ELSE fits
         IN BigDivLoop(BigSub(r, BigMul(d, step)), d, BigAdd(q, step))

BigDivMod(a, d) == BigDivLoop(a, d, <<>>)

(***************************************************************************)
(* Python floats (IEEE 754 binary64): <<sign, m, e>> is sign * m * 2^e,    *)
(* sign 1 or -1 and m a natural below 2^53 (or 2^53 itself) as above.      *)
(* Every operation gives the float nearest to the exact result, ties to    *)
(* the even significand.  Subnormals, infinities and NaN do not arise from *)
(* the amounts of the program and are left out.                            *)
(***************************************************************************)
\* The float nearest to sign * (m + f) * 2^e, where 0 <= f < 1 and more is
\* TRUE exactly when f > 0; m is of more than 53 bits when more is TRUE.
FloatRoundMore(sign, m, e, more) ==
    LET n == BigBitLen(m)
    IN IF n <= 53 THEN <<sign, m, e>>
       ELSE LET sh == n - 53
                q == BigShiftRight(m, sh)
                up == /\ BigBit(m, sh - 1) = 1
                      /\ more \/ BigLowNonZero(m, sh - 1) \/ Limb(q, 1) % 2 = 1
            IN <<sign, IF up THEN BigAdd(q, <<1>>) ELSE q, e + sh>>

\* The float nearest to sign * m * 2^e.
FloatRound(sign, m, e) == FloatRoundMore(sign, m, e, FALSE)

\* float(n) of an int of less than 32 bits.
FloatOfInt(n) == <<IF n < 0 THEN 0 - 1 ELSE 1, BigOfInt(IF n < 0 THEN 0 - n ELSE n), 0>>

\* p / q of ints 0 <= p, 0 < q < 2^17, which is also the float of the decimal
\* literal with that value (0.05 is 5 / 100).
FloatOfRatio(p, q) ==
    LET qr == BigDivSmall(BigShiftLeft(BigOfInt(p), 84), q)
    IN FloatRoundMore(1, qr[1], 0 - 84, qr[2] # 0)

FloatNeg(x) == <<0 - x[1], x[2], x[3]>>

FloatMul(x, y) == FloatRound(x[1] * y[1], BigMul(x[2], y[2]), x[3] + y[3])

FloatAdd(x, y) ==
    IF x[2] = <<>> THEN y
    ELSE IF y[2] = <<>> THEN x
    ELSE LET e == IF x[3] < y[3] THEN x[3] ELSE y[3]
             mx == BigShiftLeft(x[2], x[3] - e)
             my == BigShiftLeft(y[2], y[3] - e)
             c == BigCmp(mx, my)
         IN IF x[1] = y[1] THEN FloatRound(x[1], BigAdd(mx, my), e)
            ELSE IF c = 0 THEN <<1, <<>>, 0>>
            ELSE IF c > 0 THEN FloatRound(x[1], BigSub(mx, my), e)
            ELSE FloatRound(y[1], BigSub(my, mx), e)

FloatSub(x, y) == FloatAdd(x, FloatNeg(y))

\* floor(2^112 / d) for d > 0 of at most four digits.
Reciprocal(d) == BigDivMod(BigShiftLeft(<<1>>, 112), d)[1]

\* x / y for y # 0, given r = Reciprocal(y[2]): the quotient to 56 or 57 bits,
\* which r gives up to one unit that the remainder settles, and whether it
\* is exact.
FloatDivBy(x, y, r) ==
    IF x[2] = <<>> THEN x
    ELSE LET s == 56 + BigBitLen(y[2]) - BigBitLen(x[2])
             q0 == BigShiftRight(BigMul(x[2], r), 112 - s)
             r0 == BigSub(BigShiftLeft(x[2], s), BigMul(y[2], q0))
             short == BigCmp(r0, y[2]) >= 0
             q == IF short THEN BigAdd(q0, <<1>>) ELSE q0
             exact == IF short THEN r0 = y[2] ELSE r0 = <<>>
         IN FloatRoundMore(x[1] * y[1], q, x[3] - y[3] - s, ~exact)

FloatDiv(x, y) == FloatDivBy(x, y, Reciprocal(y[2]))

\* The sign of x - y (-1, 0 or 1), from the significands brought to one
\* exponent.
FloatCmp(x, y) ==
    LET sx == IF x[2] = <<>> THEN 0 ELSE x[1]
        sy == IF y[2] = <<>> THEN 0 ELSE y[1]
        e == IF x[3] < y[3] THEN x[3] ELSE y[3]
    IN IF sx # sy THEN (IF sx < sy THEN 0 - 1 ELSE 1)
       ELSE sx * BigCmp(BigShiftLeft(x[2], x[3] - e), BigShiftLeft(y[2], y[3] - e))

\* x < y, x <= y and x == y
FloatLess(x, y) == FloatCmp(x, y) < 0
FloatLeq(x, y) == FloatCmp(x, y) <= 0
FloatEq(x, y) == FloatCmp(x, y) = 0

\* round(x, 2) of a float x >= 0, as <<units, cents>>: the multiple of 0.01
\* nearest to the exact value of x, an exact tie going to the even cent.
Round2(x) ==
    LET c == BigMulSmall(x[2], 100)
        sh == 0 - x[3]
        q == IF sh <= 0 THEN BigShiftLeft(c, 0 - sh) ELSE BigShiftRight(c, sh)
        up == /\ sh > 0
              /\ BigBit(c, sh - 1) = 1
              /\ BigLowNonZero(c, sh - 1) \/ Limb(q, 1) % 2 = 1
        cents == BigDivSmall(IF up THEN BigAdd(q, <<1>>) ELSE q, 100)
    IN <<BigToInt(cents[1]), cents[2]>>

(***************************************************************************)
(* Decimal amounts <<units, frac>>, frac in ten-thousandths: the           *)
(* arithmetic of the properties on amounts rounded to cents.               *)
(***************************************************************************)
Amt(units) == <<units, 0>>
AddAmt(x, y) == <<x[1] + y[1] + (x[2] + y[2]) \div 10000, (x[2] + y[2]) % 10000>>
SubAmt(x, y) == IF x[2] >= y[2] THEN <<x[1] - y[1], x[2] - y[2]>>
                ELSE <<x[1] - y[1] - 1, x[2] + 10000 - y[2]>>
AmtLess(x, y) == x[1] < y[1] \/ (x[1] = y[1] /\ x[2] < y[2])
AmtLeq(x, y) == ~AmtLess(y, x)

\* floor(x * a / b) in ten-thousandths, for a * b < 200000.
MulDiv(x, a, b) ==
    LET q == x[1] \div b
        r == x[1] % b
        t == ((r * 10000 + x[2]) * a) \div b
    IN <<q * a + t \div 10000, t % 10000>>

(***************************************************************************)
(* The random stream (np.random.default_rng).                              *)
(***************************************************************************)
default_rng(random_seed) == (random_seed * 7919 + 10473) % 32768
Advance(s) == (s * 20077 + 12345) % 32768

\* floor(s * n / 32768) without leaving 32 bits.
Scale(s, n) == (n \div 32768) * s + ((n % 32768) * s) \div 32768

\* rng.integers with the upper end included.
integersInclusive(s, lo, hi) == lo + Scale(s, hi - lo + 1)

\* rng.integers(lo, hi) read off the state s reached by the draw.
integers(s, lo, hi) == lo + Scale(s, hi - lo)

\* Whether the draw made in state s is a multiple of 1/256.  The draws of the
\* cell [153/256, 154/256), which holds 0.6, are not where the state is odd.
OnGrid(s) == ~(s \div 128 = 153 /\ s % 2 = 1)

\* The doubles 0.6 - 2^-25 and 0.6 + 2^-25, which are 5404319284409139 / 2^53
\* and 5404319821280051 / 2^53 (the numerators in limbs of 14 bits, lowest
\* first).  rng.uniform(5000, 80000) (line 277) gives 50000 at the draw 0.6
\* and a balance a quarter of a cent below and above 50000 at these two.
NearSixTenths(below) ==
    <<1, <<13107, 3276, IF below THEN 13106 ELSE 13108, 1228>>, 0 - 53>>

\* rng.random(): a double k / 2^53 of [0, 1), read off the state s reached by
\* the draw.  The high bits of the state give the multiple of 1/256 the draw
\* starts from; in the cell of 0.6 the low bits of an odd state place it on
\* either side of 0.6.
random(s) ==
    IF OnGrid(s) THEN <<1, BigOfInt(s \div 128), 0 - 8>>
    ELSE NearSixTenths(s % 4 = 1)

\* rng.uniform(low, high) of floats: low + (high - low) * random().
uniform(s, low, high) ==
    FloatAdd(low, FloatMul(FloatSub(high, low), random(s)))

\* Index (1-based) chosen in a weight list p (percent) by the inverse CDF.
RECURSIVE CdfIndex(_, _, _)
CdfIndex(p, slot, i) ==
    IF i >= Len(p) \/ slot < p[i] THEN i ELSE CdfIndex(p, slot - p[i], i + 1)

\* rng.choice(a, p=p): p in percent.
choice_p(s, a, p) == a[CdfIndex(p, Scale(s, 100), 1)]

\* rng.choice(a): uniform.
choice(s, a) == a[1 + Scale(s, Len(a))]

\* The state after n successive draws from s.  Advance is the affine map
\* s |-> a * s + c, so n draws are the affine map AffinePow(n), computed by
\* repeated squaring.
AffineCompose(f, g) == <<(f[1] * g[1]) % 32768, (f[1] * g[2] + f[2]) % 32768>>

RECURSIVE AffinePow(_)
AffinePow(n) ==
    IF n = 0 THEN <<1, 0>>
    ELSE IF n % 2 = 1 THEN AffineCompose(<<20077, 12345>>, AffinePow(n - 1))
    ELSE LET h == AffinePow(n \div 2) IN AffineCompose(h, h)

AdvanceBy(s, n) == LET f == AffinePow(n) IN (f[1] * s + f[2]) % 32768

\* <<s, F(s), F(F(s)), ...>> for F = n[k] draws at step k, extended to stop
\* entries.
RECURSIVE StatesRun(_, _, _)
StatesRun(n, stop, acc) ==
    IF Len(acc) >= stop THEN acc
    ELSE StatesRun(n, stop, Append(acc, AdvanceBy(acc[Len(acc)], n[Len(acc)])))

\* The same to count + 1 entries, twenty at a time: entry k + 1 is the state
\* after the first k steps.
RECURSIVE States(_, _, _)
States(n, count, acc) ==
    IF Len(acc) >= count + 1 THEN acc
    ELSE States(n, count, StatesRun(n, Min(Len(acc) + 20, count + 1), acc))

\* rng.choice(..., size=n) and rng.integers(..., size=n) draw n values in turn:
\* the states reached by n successive draws from s.
Draws(s, n) == Tail(States([k \in 1..n |-> 1], n, <<s>>))

(***************************************************************************)
(* datetime.date and timedelta.                                            *)
(***************************************************************************)
IsLeap(y) == (y % 4 = 0 /\ y % 100 # 0) \/ y % 400 = 0
DaysInMonth(y, m) ==
    IF m = 2 THEN (IF IsLeap(y) THEN 29 ELSE 28)
    ELSE IF m \in {4, 6, 9, 11} THEN 30 ELSE 31

Date(y, m, d) == [year |-> y, month |-> m, day |-> d]

DaysBeforeYear(y) == (y - 1) * 365 + (y - 1) \div 4 - (y - 1) \div 100 + (y - 1) \div 400
DaysBeforeMonth(y, m) ==
    <<0, 31, 59, 90, 120, 151, 181, 212, 243, 273, 304, 334>>[m]
    + (IF m > 2 /\ IsLeap(y) THEN 1 ELSE 0)

\* date.toordinal(): 1 for 0001-01-01.
toordinal(dt) == DaysBeforeYear(dt.year) + DaysBeforeMonth(dt.year, dt.month) + dt.day

\* date.fromordinal(n), by the 400/100/4/1-year cycles.
fromordinal(ordinal) ==
    LET n0 == ordinal - 1
        n400 == n0 \div 146097
        r400 == n0 % 146097
        n100 == r400 \div 36524
        r100 == r400 % 36524
        n4 == r100 \div 1461
        r4 == r100 % 1461
        n1 == r4 \div 365
        n == r4 % 365
        year == n400 * 400 + 1 + n100 * 100 + n4 * 4 + n1
        leapyear == n1 = 3 /\ (n4 # 24 \/ n100 = 3)
        month0 == (n + 50) \div 32
        preceding0 == <<0, 31, 59, 90, 120, 151, 181, 212, 243, 273, 304, 334>>[month0]
                      + (IF month0 > 2 /\ leapyear THEN 1 ELSE 0)
        month == IF preceding0 > n THEN month0 - 1 ELSE month0
        preceding == IF preceding0 > n
                     THEN preceding0 - (<<31, 28, 31, 30, 31, 30, 31, 31, 30, 31, 30, 31>>[month]
                                        + (IF month = 2 /\ leapyear THEN 1 ELSE 0))
                     ELSE preceding0
    IN IF n1 = 4 \/ n100 = 4 THEN Date(year - 1, 12, 31)
       ELSE Date(year, month, n - preceding + 1)

\* dt + timedelta(days=n).
AddDays(dt, n) == fromordinal(toordinal(dt) + n)

\* dt.strftime('%Y%m%d'): the C library's %Y, which glibc does not pad (the
\* year 999 gives three digits), and two digits each for month and day.
strftime(dt) == Digits(dt.year) \o Fmt(dt.month, 2) \o Fmt(dt.day, 2)

\* dt.isoformat(): YYYY-MM-DD, as its three digit groups.
isoformat(dt) == <<Fmt(dt.year, 4), Fmt(dt.month, 2), Fmt(dt.day, 2)>>

\* The dates the two formats denote (what a reader of the file parses back).
ParseYmd(ds) == Date(ParseInt(SubSeq(ds, 1, Len(ds) - 4)),
                     ParseInt(SubSeq(ds, Len(ds) - 3, Len(ds) - 2)),
                     ParseInt(SubSeq(ds, Len(ds) - 1, Len(ds))))
ParseIso(t) == Date(ParseInt(t[1]), ParseInt(t[2]), ParseInt(t[3]))

(***************************************************************************)
(* Reference tables assigned by FINMALCRDataGenerator.__init__.            *)
(***************************************************************************)
\* (code, probability in percent, level, haircut factor in percent)
hqla_assets == <<
    <<<<"CASH", "SNB">>, 15, "L1", 100>>,
    <<<<"CASH", "VAULT">>, 5, "L1", 100>>,
    <<<<"GOVT", "BOND", "CHF">>, 30, "L1", 100>>,
    <<<<"GOVT", "BOND", "FOREIGN">>, 10, "L1", 100>>,
    <<<<"CANTON", "BOND">>, 15, "L2A", 85>>,
    <<<<"COVERED", "BOND">>, 10, "L2A", 85>>,
    <<<<"EQUITY", "SMI">>, 10, "L2B", 50>>,
    <<<<"CORPORATE", "BOND", "AA">>, 5, "L2B", 50>> >>

\* (code, probability in percent, counterparty type, run-off in percent,
\*  allows discount, is operational)
deposit_types == <<
    <<"RETAIL_STABLE_INSURED", 40, "RETAIL", 3, TRUE, TRUE>>,
    <<"RETAIL_STABLE", 30, "RETAIL", 5, TRUE, TRUE>>,
    <<"RETAIL_LESS_STABLE", 15, "RETAIL", 10, FALSE, FALSE>>,
    <<"CORPORATE_OPERATIONAL", 10, "CORPORATE", 25, FALSE, TRUE>>,
    <<"CORPORATE_NON_OPERATIONAL", 4, "CORPORATE", 40, FALSE, FALSE>>,
    <<"FINANCIAL_INSTITUTION", 1, "FINANCIAL_INSTITUTION", 100, FALSE, FALSE>> >>

\* (code, probability in percent)
currencies == << <<"CHF", 60>>, <<"EUR", 20>>, <<"USD", 15>>, <<"GBP", 5>> >>

\* FX rates vs CHF, in 1/10000.
fx_rates == [c \in {"CHF", "EUR", "USD", "GBP"} |->
                CASE c = "CHF" -> 10000 [] c = "EUR" -> 9500
                  [] c = "USD" -> 8800 [] c = "GBP" -> 11200]

credit_ratings == <<"AAA", "AA+", "AA", "AA-", "A+", "A", "A-">>

\* An ISIN: a letter prefix followed by digits.
Isin(prefix, digits) == [prefix |-> prefix, digits |-> digits]

smi_stocks == <<
    Isin("CH", <<0, 0, 1, 2, 0, 3, 2, 0, 4, 8>>),
    Isin("CH", <<0, 2, 4, 4, 7, 6, 7, 5, 8, 5>>),
    Isin("CH", <<0, 0, 3, 8, 8, 6, 3, 3, 5, 0>>),
    Isin("CH", <<0, 0, 1, 2, 0, 0, 5, 2, 6, 7>>),
    Isin("CH", <<0, 0, 1, 2, 2, 2, 1, 7, 1, 6>>),
    Isin("CH", <<0, 0, 2, 4, 6, 0, 8, 8, 2, 7>>),
    Isin("CH", <<0, 0, 1, 2, 1, 3, 8, 5, 3, 0>>),
    Isin("CH", <<0, 0, 1, 2, 0, 3, 2, 1, 1, 3>>),
    Isin("CH", <<0, 0, 2, 5, 7, 5, 1, 3, 2, 9>>),
    Isin("CH", <<0, 2, 1, 0, 4, 8, 3, 3, 3, 2>>) >>

\* s[-n:]
LastN(s, n) == SubSeq(s, Len(s) - n + 1, Len(s))

(***************************************************************************)
(* FINMALCRDataGenerator.generate_hqla_holdings                            *)
(***************************************************************************)
HoldingFields == <<"HOLDING_ID", "AS_OF_DATE", "ASSET_TYPE", "ISIN", "SECURITY_NAME",
    "CURRENCY", "QUANTITY", "MARKET_VALUE_CCY", "MARKET_VALUE_CHF", "FX_RATE",
    "MATURITY_DATE", "CREDIT_RATING", "SMI_CONSTITUENT", "HQLA_ELIGIBLE",
    "PORTFOLIO_CODE", "CUSTODIAN">>

\* The equity branch taken for the code EQUITY alone.
IsEquityBranchExact(asset_type) == asset_type = <<"EQUITY">>

\* The three identifier branches (lines 145, 152, 161).
IsEquityBranch(asset_type) == Contains("EQUITY", asset_type)
IsBondBranch(asset_type) ==
    ~IsEquityBranch(asset_type)
    /\ (Contains("BOND", asset_type) \/ Contains("COVERED", asset_type))

\* The state after the identifier branch's draws, entered in state s.
AfterIdentifier(s, asset_type) ==
    IF IsEquityBranch(asset_type) THEN AdvanceBy(s, 2)
    ELSE IF IsBondBranch(asset_type) THEN AdvanceBy(s, 3)
    ELSE s

\* base_value with the equity range for the code EQUITY alone.
BaseValueExact(s, asset_type) ==
    IF asset_type \in {<<"CASH", "SNB">>, <<"CASH", "VAULT">>}
    THEN uniform(s, FloatOfInt(10000000), FloatOfInt(200000000))
    ELSE IF asset_type = <<"EQUITY">>
    THEN uniform(s, FloatOfInt(5000000), FloatOfInt(100000000))
    ELSE uniform(s, FloatOfInt(20000000), FloatOfInt(500000000))

\* base_value (lines 170-178), drawn in state s.
BaseValue(s, asset_type) ==
    IF asset_type \in {<<"CASH", "SNB">>, <<"CASH", "VAULT">>}
    THEN uniform(s, FloatOfInt(10000000), FloatOfInt(200000000))
    ELSE IF Contains("EQUITY", asset_type)
    THEN uniform(s, FloatOfInt(5000000), FloatOfInt(100000000))
    ELSE uniform(s, FloatOfInt(20000000), FloatOfInt(500000000))

\* The literal 0.05 of line 181.
FivePercent == FloatOfRatio(5, 100)

\* variance_factor (line 181): 1.0 + daily_variance * rng.uniform(-0.05, 0.05),
\* with daily_variance the float dv[1] / dv[2] (0.0 is 0 / 1) and the draw
\* made in state s.
VarianceFactor(dv, s) ==
    LET daily_variance == FloatOfRatio(dv[1], dv[2])
        drawn == uniform(s, FloatNeg(FivePercent), FivePercent)
    IN FloatAdd(FloatOfInt(1), FloatMul(daily_variance, drawn))

\* The same computed once for the variances of a series of at most MaxDays
\* days and the draws that are multiples of 1/256:
\* VarianceFactors[num_days][day + 1][256 * random(s) + 1].
VarianceFactors ==
    [n \in 1..MaxDays |->
        [d \in 1..n |->
            [k \in 1..256 |-> VarianceFactor(<<d - 1, n>>, (k - 1) * 128)] \o <<>>] \o <<>>] \o <<>>

\* Lines 181-182: market_value_chf = base_value * variance_factor.
ApplyVariance(base_value, dv, s) ==
    LET variance_factor ==
            IF dv[2] \in 1..MaxDays /\ dv[1] \in 0..(dv[2] - 1) /\ OnGrid(s)
            THEN VarianceFactors[dv[2]][dv[1] + 1][s \div 128 + 1]
            ELSE VarianceFactor(dv, s)
    IN FloatMul(base_value, variance_factor)

\* The floats of the literals of fx_rates (0.95 is 9500 / 10000) and of the
\* default 1.0, each with its reciprocal, computed once.
FxFloats ==
    [fx \in {fx_rates[c] : c \in DOMAIN fx_rates} \cup {10000} |->
        LET y == FloatOfRatio(fx, 10000) IN <<y, Reciprocal(y[2])>>] @@ <<>>

\* x / fx_rate, fx_rate being the float of the table's literal, kept in
\* 1/10000 (0.95 is 9500).
DivFx(x, fx_rate) ==
    IF fx_rate \in DOMAIN FxFloats
    THEN FloatDivBy(x, FxFloats[fx_rate][1], FxFloats[fx_rate][2])
    ELSE FloatDiv(x, FloatOfRatio(fx_rate, 10000))

\* The conversion multiplying by the rate.
ToCurrencyTimes(value_chf, currency, fx_rate) ==
    IF currency # "CHF"
    THEN FloatMul(value_chf, FloatOfRatio(fx_rate, 10000))
    ELSE value_chf

\* market_value_ccy (line 186).
ToCurrency(value_chf, currency, fx_rate) ==
    IF currency # "CHF" THEN DivFx(value_chf, fx_rate) ELSE value_chf

\* One pass of the loop body (lines 141-212) for position i (0-based), entered
\* with the stream in state s: the record appended.  The pass leaves the stream
\* DrawsOfHolding(asset_type) draws further.
Holding(i, asset_type, currency, s, as_of_date, daily_variance) ==
    LET s1 == Advance(s)
        s2 == Advance(s1)
        s3 == Advance(s2)
        sB == Advance(AfterIdentifier(s, asset_type))
        sV == Advance(sB)
        sE == Advance(sV)
        sP == Advance(sE)
        sC == Advance(sP)
        equity == IsEquityBranch(asset_type)
        bond == IsBondBranch(asset_type)
        isin == IF equity THEN Some(choice(s1, smi_stocks))
                ELSE IF bond
                THEN Some(Isin(currency, Fmt(integers(s1, 10000000, 99999999), 8)))
                ELSE None
        market_value_chf == ApplyVariance(BaseValue(sB, asset_type), daily_variance, sV)
        fx_rate == fx_rates[currency]
        market_value_ccy == ToCurrency(market_value_chf, currency, fx_rate)
    IN [    HOLDING_ID |-> [text |-> "HOLD-", date |-> strftime(as_of_date),
                           seq |-> Fmt(i + 1, 5)],
            AS_OF_DATE |-> isoformat(as_of_date),
            ASSET_TYPE |-> asset_type,
            ISIN |-> isin,
            SECURITY_NAME |->
                IF equity THEN [text |-> <<"SMI Stock">>, digits |-> LastN(isin[1].digits, 4)]
                ELSE IF bond THEN [text |-> asset_type, digits |-> LastN(isin[1].digits, 6)]
                ELSE [text |-> asset_type, digits |-> <<>>],
            CURRENCY |-> currency,
            QUANTITY |-> IF equity THEN Some(integers(s2, 100, 10000)) ELSE None,
            MARKET_VALUE_CCY |-> Round2(market_value_ccy),
            MARKET_VALUE_CHF |-> Round2(market_value_chf),
            FX_RATE |-> fx_rate,
            MATURITY_DATE |->
                IF bond THEN Some(isoformat(AddDays(as_of_date, integers(s3, 365, 3650))))
                ELSE None,
            CREDIT_RATING |-> IF bond THEN Some(choice(s2, credit_ratings)) ELSE None,
            SMI_CONSTITUENT |-> equity,
            HQLA_ELIGIBLE |-> FloatLess(FivePercent, random(sE)),
            PORTFOLIO_CODE |-> choice(sP, <<"TREASURY_LIQ", "TREASURY_INV", "ALM_BUFFER">>),
            CUSTODIAN |-> choice(sC, <<"SIX SIS", "EUROCLEAR", "CLEARSTREAM">>)]

\* The number of draws one pass of the loop body makes.
DrawsOfHolding(asset_type) ==
    5 + (IF IsEquityBranch(asset_type) THEN 2 ELSE IF IsBondBranch(asset_type) THEN 3 ELSE 0)

\* pd.DataFrame(records): the columns are the keys of the records, none when
\* there is no record.
DataFrame(records, fields) ==
    [columns |-> IF records = <<>> THEN <<>> ELSE fields, rows |-> records]

\* generate_hqla_holdings(as_of_date, daily_variance) on a stream in state s,
\* with the tables of the generator: the frame returned and the state left.
generate_hqla_holdings(tables, s, as_of_date, daily_variance) ==
    LET sN == Advance(s)
        num_holdings == integers(sN, 150, 300)
        dA == Draws(sN, num_holdings)
        sA == dA[num_holdings]
        dC == Draws(sA, num_holdings)
        sC == dC[num_holdings]
        codes == [k \in 1..Len(tables.hqla_assets) |-> tables.hqla_assets[k][1]]
        pA == [k \in 1..Len(tables.hqla_assets) |-> tables.hqla_assets[k][2]]
        ccy == [k \in 1..Len(tables.currencies) |-> tables.currencies[k][1]]
        pC == [k \in 1..Len(tables.currencies) |-> tables.currencies[k][2]]
        asset_types == [k \in 1..num_holdings |-> choice_p(dA[k], codes, pA)]
        ccys == [k \in 1..num_holdings |-> choice_p(dC[k], ccy, pC)]
        \* the state in which pass k of the loop (lines 140-212) is entered
        entry == States([k \in 1..num_holdings |-> DrawsOfHolding(asset_types[k])],
                        num_holdings, <<sC>>)
        holdings == [k \in 1..num_holdings |->
                        Holding(k - 1, asset_types[k], ccys[k], entry[k],
                                as_of_date, daily_variance)]
    IN [df |-> DataFrame(holdings, HoldingFields), rng |-> entry[num_holdings + 1]]

(***************************************************************************)
(* FINMALCRDataGenerator.generate_deposit_balances                         *)
(***************************************************************************)
DepositFields == <<"ACCOUNT_ID", "AS_OF_DATE", "CUSTOMER_ID", "DEPOSIT_TYPE", "CURRENCY",
    "BALANCE_CCY", "BALANCE_CHF", "FX_RATE", "IS_INSURED", "PRODUCT_COUNT",
    "ACCOUNT_TENURE_DAYS", "HAS_DIRECT_DEBIT", "IS_OPERATIONAL", "COUNTERPARTY_TYPE",
    "CUSTOMER_SEGMENT", "ACCOUNT_STATUS">>

\* [cust_id] * num_accounts
RECURSIVE Repeat(_, _)
Repeat(v, n) == IF n <= 0 THEN <<>> ELSE <<v>> \o Repeat(v, n - 1)

\* expanded_customer_ids (lines 235-237), from position k of customer_ids on.
RECURSIVE Expand(_, _, _)
Expand(customer_ids, num_accounts_per_customer, k) ==
    IF k > Len(customer_ids) THEN <<>>
    ELSE Repeat(customer_ids[k], num_accounts_per_customer[k])
         \o Expand(customer_ids, num_accounts_per_customer, k + 1)

\* next(d for d in self.deposit_types if d[0] == deposit_type)
DtMeta(table, deposit_type) ==
    table[CHOOSE k \in 1..Len(table) :
            /\ table[k][1] = deposit_type
            /\ \A j \in 1..(k - 1) : table[j][1] # deposit_type]

\* f"{customer_id}_DEP_{n:02d}"
AccountId(customer_id, n) == [customer |-> customer_id, sep |-> "_DEP_", ordinal |-> Fmt(n, 2)]

\* balance_chf with retail balances up to 300000.
BalanceChfWide(s, counterparty_type) ==
    IF counterparty_type = "RETAIL" THEN uniform(s, FloatOfInt(5000), FloatOfInt(300000))
    ELSE IF counterparty_type = "CORPORATE" THEN uniform(s, FloatOfInt(30000), FloatOfInt(800000))
    ELSE uniform(s, FloatOfInt(100000), FloatOfInt(3000000))

\* balance_chf (lines 275-283), drawn in state s.
BalanceChf(s, counterparty_type) ==
    IF counterparty_type = "RETAIL" THEN uniform(s, FloatOfInt(5000), FloatOfInt(80000))
    ELSE IF counterparty_type = "CORPORATE" THEN uniform(s, FloatOfInt(30000), FloatOfInt(800000))
    ELSE uniform(s, FloatOfInt(100000), FloatOfInt(3000000))

\* is_insured with either condition sufficing.
IsInsuredEither(counterparty_type, balance_chf) ==
    counterparty_type = "RETAIL" \/ FloatLeq(balance_chf, FloatOfInt(100000))

\* is_insured (line 290)
IsInsured(counterparty_type, balance_chf) ==
    counterparty_type = "RETAIL" /\ FloatLeq(balance_chf, FloatOfInt(100000))

\* customer_segment (lines 305-313)
CustomerSegment(counterparty_type, balance_chf) ==
    IF counterparty_type = "RETAIL"
    THEN IF FloatLess(balance_chf, FloatOfInt(50000)) THEN "MASS"
         ELSE IF FloatLess(balance_chf, FloatOfInt(250000)) THEN "AFFLUENT"
         ELSE "PRIVATE"
    ELSE "CORPORATE"

\* The counter with one count shared by all customers.
CountAccountShared(customer_account_counter, customer_id) ==
    IF DOMAIN customer_account_counter = {} THEN 1
    ELSE 1 + (CHOOSE m \in {customer_account_counter[c] : c \in DOMAIN customer_account_counter} :
                \A c \in DOMAIN customer_account_counter : customer_account_counter[c] <= m)

\* The value of customer_account_counter[customer_id] after lines 261-264.
CountAccount(customer_account_counter, customer_id) ==
    IF customer_id \notin DOMAIN customer_account_counter THEN 1
    ELSE customer_account_counter[customer_id] + 1

\* The number of draws one pass of the loop body (lines 260-335) makes.
DrawsOfDeposit(dt_meta) == 4 + (IF dt_meta[5] THEN 1 ELSE 0)

\* One pass of the loop body for (customer_id, deposit_type, currency), entered
\* with the stream in state s and the account ordinal n: the record appended.
Deposit(n, customer_id, deposit_type, currency, table, s, as_of_date) ==
    LET dt_meta == DtMeta(table, deposit_type)
        counterparty_type == dt_meta[3]
        allows_discount == dt_meta[5]
        is_operational == dt_meta[6]
        s1 == Advance(s)
        s2 == Advance(s1)
        sT == IF allows_discount THEN Advance(s2) ELSE s2
        sD == Advance(sT)
        sS == Advance(sD)
        balance_chf == BalanceChf(s1, counterparty_type)
        fx_rate == IF currency \in DOMAIN fx_rates THEN fx_rates[currency] ELSE 10000
        balance_ccy == ToCurrency(balance_chf, currency, fx_rate)
    IN [    ACCOUNT_ID |-> AccountId(customer_id, n),
            AS_OF_DATE |-> isoformat(as_of_date),
            CUSTOMER_ID |-> customer_id,
            DEPOSIT_TYPE |-> deposit_type,
            CURRENCY |-> currency,
            BALANCE_CCY |-> Round2(balance_ccy),
            BALANCE_CHF |-> Round2(balance_chf),
            FX_RATE |-> fx_rate,
            IS_INSURED |-> IsInsured(counterparty_type, balance_chf),
            PRODUCT_COUNT |-> IF allows_discount THEN integers(s2, 1, 6) ELSE 1,
            ACCOUNT_TENURE_DAYS |-> integers(sT, 30, 3650),
            HAS_DIRECT_DEBIT |->
                FloatLess(random(sD), IF counterparty_type = "RETAIL"
                                      THEN FloatOfRatio(7, 10) ELSE FloatOfRatio(3, 10)),
            IS_OPERATIONAL |-> is_operational,
            COUNTERPARTY_TYPE |-> counterparty_type,
            CUSTOMER_SEGMENT |-> CustomerSegment(counterparty_type, balance_chf),
            ACCOUNT_STATUS |-> IF FloatLess(random(sS), FloatOfRatio(98, 100))
                               THEN "ACTIVE" ELSE "DORMANT"]

\* The loop of lines 257-335 from the state (s, customer_account_counter,
\* deposits) reached after Len(deposits) passes.
RECURSIVE Deposits(_, _, _, _, _, _, _, _)
Deposits(expanded_customer_ids, dep_types, ccys, table, s, as_of_date, customer_account_counter, deposits) ==
    IF Len(deposits) >= Len(expanded_customer_ids) THEN [records |-> deposits, rng |-> s]
    ELSE LET i == Len(deposits) + 1
             customer_id == expanded_customer_ids[i]
             n == CountAccount(customer_account_counter, customer_id)
             counter == [c \in DOMAIN customer_account_counter \cup {customer_id} |->
                            IF c = customer_id THEN n ELSE customer_account_counter[c]]
         IN Deposits(expanded_customer_ids, dep_types, ccys, table,
                     AdvanceBy(s, DrawsOfDeposit(DtMeta(table, dep_types[i]))), as_of_date,
                     counter,
                     Append(deposits, Deposit(n, customer_id, dep_types[i], ccys[i], table,
                                              s, as_of_date)))

\* generate_deposit_balances(as_of_date, customer_ids) on a stream in state s:
\* the frame returned, the state left and num_accounts_per_customer.
generate_deposit_balances(tables, s, as_of_date, customer_ids) ==
    LET n == Len(customer_ids)
        dN == Draws(s, n)
        sN == IF n = 0 THEN s ELSE dN[n]
        num_accounts_per_customer == [k \in 1..n |-> integers(dN[k], 1, 4)]
        total_accounts == SumSeq(num_accounts_per_customer)
        expanded_customer_ids == Expand(customer_ids, num_accounts_per_customer, 1)
        dT == Draws(sN, total_accounts)
        sT == IF total_accounts = 0 THEN sN ELSE dT[total_accounts]
        dC == Draws(sT, total_accounts)
        sC == IF total_accounts = 0 THEN sT ELSE dC[total_accounts]
        codes == [k \in 1..Len(tables.deposit_types) |-> tables.deposit_types[k][1]]
        pT == [k \in 1..Len(tables.deposit_types) |-> tables.deposit_types[k][2]]
        dep_types == [k \in 1..total_accounts |-> choice_p(dT[k], codes, pT)]
        ccys == [k \in 1..total_accounts |->
                    choice_p(dC[k], <<"CHF", "EUR", "USD">>, <<80, 15, 5>>)]
        d == Deposits(expanded_customer_ids, dep_types, ccys, tables.deposit_types, sC,
                      as_of_date, <<>>, <<>>)
    IN [df |-> DataFrame(d.records, DepositFields), rng |-> d.rng,
        num_accounts_per_customer |-> num_accounts_per_customer]

(***************************************************************************)
(* DataFrame.to_csv(file, index=False) and the output directory.           *)
(***************************************************************************)
\* The file written: the header row (the frame's columns) and one row of
\* cells per record, in column order.
to_csv(df) ==
    [header |-> df.columns,
     rows |-> [k \in 1..Len(df.rows) |->
                  [c \in 1..Len(df.columns) |-> df.rows[k][df.columns[c]]]]]

\* Both files of a day given the holdings file's name.
FileNameOfHoldings(kind, current_date) ==
    [kind |-> "hqla_holdings", date |-> strftime(current_date), ext |-> "csv"]

\* output_dir / f"{kind}_{current_date.strftime('%Y%m%d')}.csv"
FileName(kind, current_date) == [kind |-> kind, date |-> strftime(current_date), ext |-> "csv"]

\* The directory after the file is opened for appending and written.
WriteFileAppending(dir, name, content) ==
    [n \in DOMAIN dir \cup {name} |->
        IF n # name THEN dir[n]
        ELSE IF name \in DOMAIN dir
        THEN [header |-> dir[name].header, rows |-> dir[name].rows \o content.rows]
        ELSE content]

\* The directory after the file is (over)written.
WriteFile(dir, name, content) ==
    [n \in DOMAIN dir \cup {name} |-> IF n = name THEN content ELSE dir[n]]

\* The position of a column in a header row, 0 when absent.
ColumnIndex(header, column) ==
    IF \E c \in 1..Len(header) : header[c] = column
    THEN CHOOSE c \in 1..Len(header) : header[c] = column
    ELSE 0

(***************************************************************************)
(* Inputs: the command line, the customer file and the clock.              *)
(***************************************************************************)
CustomerId(text, n, width) == [text |-> text, digits |-> Fmt(n, width)]

\* f"CUST-{i+1:06d}" for i in range(num_customers)
SyntheticIds(num_customers) == [k \in 1..num_customers |-> CustomerId("CUST-", k, 6)]

\* Whether an id has the form CUST-NNNNNN.
IsSyntheticForm(id) == id.text = "CUST-" /\ Len(id.digits) = 6

\* --customer-file and what it names: no option; a path with no file; a file
\* with the listed customer_id column; a file that pd.read_csv cannot read or
\* that has no customer_id column.
NoCustomerFile == [arg |-> None, exists |-> FALSE, readable |-> FALSE, ids |-> <<>>]
MissingCustomerFile ==
    [arg |-> Some("missing.csv"), exists |-> FALSE, readable |-> FALSE, ids |-> <<>>]
CustomerFile(ids) ==
    [arg |-> Some("customers.csv"), exists |-> TRUE, readable |-> TRUE, ids |-> ids]
UnreadableCustomerFile ==
    [arg |-> Some("broken.csv"), exists |-> TRUE, readable |-> FALSE, ids |-> <<>>]

CustA == CustomerId("CUST_", 1, 5)
CustB == CustomerId("CUST_", 2, 5)

CustomerFiles == {NoCustomerFile, MissingCustomerFile, UnreadableCustomerFile,
                  CustomerFile(<<>>),
                  CustomerFile(<<CustA>>), CustomerFile(<<CustA, CustB>>),
                  CustomerFile(<<CustA, CustB, CustA>>)}

StartDateArgs == {None, Some(isoformat(Date(2024, 2, 28)))}
Today == Date(2024, 1, 1)

\* The environment of a run: the customer file, the clock, and the output
\* directory's fault: the write (counted within the run, 0 for none) at which
\* to_csv raises OSError, and whether that write leaves a torn file behind.
Env(file, write_fails, torn) ==
    [customer_file |-> file, now |-> Today, write_fails |-> write_fails, torn |-> torn]

Argv(days, customers, start_date, customer_file, seed, target_lcr) ==
    [days |-> days, customers |-> customers, start_date |-> start_date,
     customer_file |-> customer_file, seed |-> seed, target_lcr |-> target_lcr]

\* The tables as __init__ assigns them (lines 59-86).
ReferenceTables ==
    [hqla_assets |-> hqla_assets, deposit_types |-> deposit_types, currencies |-> currencies]

(***************************************************************************)
(* State.                                                                  *)
(***************************************************************************)
VARIABLES
    pc,            \* where the process is
    argv,          \* the parsed command line (args)
    env,           \* the customer file named by args and the clock
    config,        \* the table literals of __init__
    main,          \* main's locals: start_date, customer_ids, actual_num_customers
    gen,           \* the FINMALCRDataGenerator object
    ts,            \* generate_time_series' locals
    df_hqla,       \* the frame generate_hqla_holdings returned last
    df_deposits,   \* the frame generate_deposit_balances returned last
    num_accounts_per_customer,  \* that local of the last generate_deposit_balances
    disk,          \* output_dir: file name -> content
    written,       \* the names of the files this run wrote, in order
    error,         \* the exception that ended the run, if any
    prev,          \* the outcomes of the earlier runs of the command, oldest first
    employee_generator,  \* the EmployeeGenerator object (src/employee_generator.py)
    hierarchy,     \* generate_employees_and_assignments' locals
    agent_call     \* one call of call_agent_rest_api (agent_caller.py)

vars == <<pc, argv, env, config, main, gen, ts, df_hqla, df_deposits,
          num_accounts_per_customer, disk, written, error, prev,
          employee_generator, hierarchy, agent_call>>

EmptyFrame == [columns |-> <<>>, rows |-> <<>>]

\* A process started with the command line a in environment e.
Started(a, e, c) ==
    /\ pc = "start"
    /\ argv = a
    /\ env = e
    /\ config = c
    /\ main = None
    /\ gen = None
    /\ ts = None
    /\ df_hqla = EmptyFrame
    /\ df_deposits = EmptyFrame
    /\ num_accounts_per_customer = <<>>
    /\ disk = <<>>
    /\ written = <<>>
    /\ error = None
    /\ prev = None
    /\ employee_generator = None
    /\ hierarchy = None
    /\ agent_call = None

Init ==
    \E days \in 0..MaxDays, customers \in {2, 20}, start_date \in StartDateArgs,
       file \in CustomerFiles, seed \in 1..MaxSeed :
        Started(Argv(days, customers, start_date, file.arg, seed, 95),
                Env(file, 0, FALSE), ReferenceTables)

(***************************************************************************)
(* main, lines 464-486: the start date and the customer ids.               *)
(***************************************************************************)
\* Lines 467-470.
StartDate(start_date_arg, days, now) ==
    IF start_date_arg # None THEN ParseIso(start_date_arg[1])
    ELSE AddDays(now, 0 - (days - 1))

\* Line 477: whether the customer file is loaded.
LoadsCustomerFile(customer_file_arg, file) == customer_file_arg # None /\ file.exists

\* Lines 476-486; pd.read_csv or the column lookup raises on a file that
\* exists and cannot be read, and main does not catch it.
main_load ==
    /\ pc = "start"
    /\ LET loaded == LoadsCustomerFile(argv.customer_file, env.customer_file)
           start_date == StartDate(argv.start_date, argv.days, env.now)
       IN IF loaded /\ ~env.customer_file.readable
          THEN /\ main' = [start_date |-> start_date, customer_ids |-> None,
                           actual_num_customers |-> 0]
               /\ error' = Some([type |-> "Exception", in |-> "main"])
               /\ pc' = "raised"
          ELSE /\ main' = [start_date |-> start_date,
                           customer_ids |->
                               IF loaded THEN Some(env.customer_file.ids) ELSE None,
                           actual_num_customers |->
                               IF loaded THEN Len(env.customer_file.ids)
                               ELSE argv.customers]
               /\ pc' = "construct"
               /\ UNCHANGED error
    /\ UNCHANGED <<argv, env, config, gen, ts, df_hqla, df_deposits,
                   num_accounts_per_customer, disk, written, prev,
                   employee_generator, hierarchy, agent_call>>

(***************************************************************************)
(* FINMALCRDataGenerator.__init__ (lines 53-111), called at lines 489-493. *)
(***************************************************************************)
\* The generator with the target folded into the seed of its stream.
FINMALCRDataGeneratorCalibrated(num_customers, random_seed, target_lcr, tables) ==
    [num_customers |-> num_customers,
     rng |-> default_rng(random_seed + target_lcr),
     target_lcr |-> target_lcr,
     hqla_assets |-> tables.hqla_assets,
     deposit_types |-> tables.deposit_types,
     currencies |-> tables.currencies]

\* The constructor with default_rng() left unseeded: the stream starts from
\* fresh entropy, another one in every process.
FINMALCRDataGeneratorUnseeded(num_customers, random_seed, target_lcr, tables) ==
    [num_customers |-> num_customers,
     rng |-> default_rng(1000 + Len(prev)),
     target_lcr |-> target_lcr,
     hqla_assets |-> tables.hqla_assets,
     deposit_types |-> tables.deposit_types,
     currencies |-> tables.currencies]

FINMALCRDataGenerator(num_customers, random_seed, target_lcr, tables) ==
    [num_customers |-> num_customers,
     rng |-> default_rng(random_seed),
     target_lcr |-> target_lcr,
     hqla_assets |-> tables.hqla_assets,
     deposit_types |-> tables.deposit_types,
     currencies |-> tables.currencies]

construct ==
    /\ pc = "construct"
    /\ gen' = FINMALCRDataGenerator(main.actual_num_customers, argv.seed, argv.target_lcr,
                                    config)
    /\ pc' = "call"
    /\ UNCHANGED <<argv, env, config, main, ts, df_hqla, df_deposits,
                   num_accounts_per_customer, disk, written, error, prev,
                   employee_generator, hierarchy, agent_call>>

(***************************************************************************)
(* generate_time_series (lines 339-391).                                   *)
(***************************************************************************)
\* The ids with the supplied list left aside.
CustomerIdsIgnored(customer_ids, num_customers) == SyntheticIds(num_customers)

\* Lines 358-360: the customer ids used.
CustomerIdsUsed(customer_ids, num_customers) ==
    IF customer_ids = None THEN SyntheticIds(num_customers) ELSE customer_ids[1]

\* Lines 358-366: entry, up to the loop.  Beside the locals, entered keeps the
\* state in which self.rng was when the last sampling call was entered.
generate_time_series ==
    /\ pc = "call"
    /\ ts' = [start_date |-> main.start_date,
              num_days |-> argv.days,
              customer_ids |-> CustomerIdsUsed(main.customer_ids, gen.num_customers),
              day |-> 0,
              current_date |-> main.start_date,
              total_hqla |-> 0,
              total_deposits |-> 0,
              entered |-> gen.rng]
    /\ pc' = "loop"
    /\ UNCHANGED <<argv, env, config, main, gen, df_hqla, df_deposits,
                   num_accounts_per_customer, disk, written, error, prev,
                   employee_generator, hierarchy, agent_call>>

\* rng.choice(a, p=p) raises ValueError unless the probabilities sum to 1.
ChoiceRaises(table) == SumSeq([k \in 1..Len(table) |-> table[k][2]]) # 100

\* The date without the day offset.
CurrentDateOfStart(start_date, day) == start_date

\* Line 369: current_date = start_date + timedelta(days=day)
CurrentDate(start_date, day) == AddDays(start_date, day)

\* The variance driver counting the days from 1.
DailyVarianceNextDay(day, num_days) == <<day + 1, num_days>>

\* Line 376.
DailyVariance(day, num_days) == IF day > 0 THEN <<day, num_days>> ELSE <<0, 1>>

\* The day's holdings sampled from a stream seeded anew for the call.
hqla_holdings_reseeding ==
    /\ pc = "loop"
    /\ ts.day < ts.num_days
    /\ LET current_date == CurrentDate(ts.start_date, ts.day)
           reseeded == default_rng(argv.seed)
       IN /\ ts' = [ts EXCEPT !.current_date = current_date, !.entered = gen.rng]
          /\ IF ChoiceRaises(gen.hqla_assets) \/ ChoiceRaises(gen.currencies)
             THEN /\ gen' = [gen EXCEPT !.rng = Advance(reseeded)]
                  /\ error' = Some([type |-> "ValueError", in |-> "generate_hqla_holdings"])
                  /\ pc' = "raised"
                  /\ UNCHANGED df_hqla
             ELSE \E g \in {generate_hqla_holdings(gen, reseeded, current_date,
                                                     DailyVariance(ts.day, ts.num_days))} :
                     /\ df_hqla' = g.df
                     /\ gen' = [gen EXCEPT !.rng = g.rng]
                     /\ pc' = "hqla_to_csv"
                     /\ UNCHANGED error
    /\ UNCHANGED <<argv, env, config, main, df_deposits, num_accounts_per_customer, disk,
                   written, prev,
                   employee_generator, hierarchy, agent_call>>

\* Lines 368-379: the day's date, variance and holdings.
hqla_holdings ==
    /\ pc = "loop"
    /\ ts.day < ts.num_days
    /\ LET current_date == CurrentDate(ts.start_date, ts.day)
       IN /\ ts' = [ts EXCEPT !.current_date = current_date, !.entered = gen.rng]
          /\ IF ChoiceRaises(gen.hqla_assets) \/ ChoiceRaises(gen.currencies)
             THEN /\ gen' = [gen EXCEPT !.rng =
                                IF ChoiceRaises(gen.hqla_assets) THEN Advance(gen.rng)
                                ELSE AdvanceBy(Advance(gen.rng),
                                               integers(Advance(gen.rng), 150, 300))]
                  /\ error' = Some([type |-> "ValueError", in |-> "generate_hqla_holdings"])
                  /\ pc' = "raised"
                  /\ UNCHANGED df_hqla
             ELSE \E g \in {generate_hqla_holdings(gen, gen.rng, current_date,
                                                     DailyVariance(ts.day, ts.num_days))} :
                     /\ df_hqla' = g.df
                     /\ gen' = [gen EXCEPT !.rng = g.rng]
                     /\ pc' = "hqla_to_csv"
                     /\ UNCHANGED error
    /\ UNCHANGED <<argv, env, config, main, df_deposits, num_accounts_per_customer, disk,
                   written, prev,
                   employee_generator, hierarchy, agent_call>>

\* Whether the to_csv about to be made is the one the directory's fault hits:
\* the writes of a run are counted 1, 2 (day 0), 3, 4 (day 1), ...
WriteFails(nth_of_day) == env.write_fails = 2 * ts.day + nth_of_day

\* What a failed write leaves of the file: nothing of it, or its first lines.
Torn(content) ==
    [header |-> content.header,
     rows |-> SubSeq(content.rows, 1, Min(1, Len(content.rows)))]

\* The directory after a to_csv that raised OSError.
FailedWrite(dir, name, content) ==
    IF env.torn THEN WriteFile(dir, name, Torn(content)) ELSE dir

\* The total assigned instead of added to.
AddCountAssigning(total, df) == Len(df.rows)

\* total += len(df) (lines 382, 388)
AddCount(total, df) == total + Len(df.rows)

\* Lines 380-382.  An OSError of to_csv is not caught: it leaves
\* generate_time_series and main.
hqla_to_csv ==
    /\ pc = "hqla_to_csv"
    /\ LET hqla_file == FileName("hqla_holdings", ts.current_date)
       IN IF WriteFails(1)
          THEN /\ disk' = FailedWrite(disk, hqla_file, to_csv(df_hqla))
               /\ error' = Some([type |-> "OSError", in |-> "to_csv"])
               /\ pc' = "raised"
               /\ UNCHANGED <<written, ts>>
          ELSE /\ disk' = WriteFile(disk, hqla_file, to_csv(df_hqla))
               /\ written' = Append(written, hqla_file)
               /\ ts' = [ts EXCEPT !.total_hqla = AddCount(@, df_hqla)]
               /\ pc' = "deposits"
               /\ UNCHANGED error
    /\ UNCHANGED <<argv, env, config, main, gen, df_hqla, df_deposits,
                   num_accounts_per_customer, prev,
                   employee_generator, hierarchy, agent_call>>

\* Line 385.
deposit_balances ==
    /\ pc = "deposits"
    /\ IF ChoiceRaises(gen.deposit_types)
       THEN /\ gen' = [gen EXCEPT !.rng = AdvanceBy(gen.rng, Len(ts.customer_ids))]
            /\ error' = Some([type |-> "ValueError", in |-> "generate_deposit_balances"])
            /\ pc' = "raised"
            /\ UNCHANGED <<df_deposits, num_accounts_per_customer>>
       ELSE \E g \in {generate_deposit_balances(gen, gen.rng, ts.current_date,
                                                  ts.customer_ids)} :
               /\ df_deposits' = g.df
               /\ num_accounts_per_customer' = g.num_accounts_per_customer
               /\ gen' = [gen EXCEPT !.rng = g.rng]
               /\ pc' = "deposits_to_csv"
               /\ UNCHANGED error
    /\ ts' = [ts EXCEPT !.entered = gen.rng]
    /\ UNCHANGED <<argv, env, config, main, df_hqla, disk, written, prev,
                   employee_generator, hierarchy, agent_call>>

\* The step writing the deposits file only for a frame with rows.
deposits_to_csv_unless_empty ==
    /\ pc = "deposits_to_csv"
    /\ LET deposits_file == FileName("deposit_balances", ts.current_date)
       IN IF df_deposits.rows = <<>> THEN UNCHANGED <<disk, written>>
          ELSE /\ disk' = WriteFile(disk, deposits_file, to_csv(df_deposits))
               /\ written' = Append(written, deposits_file)
    /\ ts' = [ts EXCEPT !.total_deposits = @ + Len(df_deposits.rows), !.day = @ + 1]
    /\ pc' = "loop"
    /\ UNCHANGED <<argv, env, config, main, gen, df_hqla, df_deposits,
                   num_accounts_per_customer, error, prev,
                   employee_generator, hierarchy, agent_call>>

\* The step with the OSError of to_csv caught and the loop going on.
deposits_to_csv_swallowing ==
    /\ pc = "deposits_to_csv"
    /\ LET deposits_file == FileName("deposit_balances", ts.current_date)
       IN IF WriteFails(2)
          THEN /\ disk' = FailedWrite(disk, deposits_file, to_csv(df_deposits))
               /\ ts' = [ts EXCEPT !.day = @ + 1]
               /\ UNCHANGED written
          ELSE /\ disk' = WriteFile(disk, deposits_file, to_csv(df_deposits))
               /\ written' = Append(written, deposits_file)
               /\ ts' = [ts EXCEPT !.total_deposits = AddCount(@, df_deposits),
                                   !.day = @ + 1]
    /\ pc' = "loop"
    /\ UNCHANGED <<argv, env, config, main, gen, df_hqla, df_deposits,
                   num_accounts_per_customer, error, prev,
                   employee_generator, hierarchy, agent_call>>

\* Lines 386-388, and the loop's step to the next day.
deposits_to_csv ==
    /\ pc = "deposits_to_csv"
    /\ LET deposits_file == FileName("deposit_balances", ts.current_date)
       IN IF WriteFails(2)
          THEN /\ disk' = FailedWrite(disk, deposits_file, to_csv(df_deposits))
               /\ error' = Some([type |-> "OSError", in |-> "to_csv"])
               /\ pc' = "raised"
               /\ UNCHANGED <<written, ts>>
          ELSE /\ disk' = WriteFile(disk, deposits_file, to_csv(df_deposits))
               /\ written' = Append(written, deposits_file)
               /\ ts' = [ts EXCEPT !.total_deposits = AddCount(@, df_deposits),
                                   !.day = @ + 1]
               /\ pc' = "loop"
               /\ UNCHANGED error
    /\ UNCHANGED <<argv, env, config, main, gen, df_hqla, df_deposits,
                   num_accounts_per_customer, prev,
                   employee_generator, hierarchy, agent_call>>

\* Lines 390-391, and main's summary (lines 504-513).
return ==
    /\ pc = "loop"
    /\ ts.day >= ts.num_days
    /\ pc' = "returned"
    /\ UNCHANGED <<argv, env, config, main, gen, ts, df_hqla, df_deposits,
                   num_accounts_per_customer, disk, written, error, prev,
                   employee_generator, hierarchy, agent_call>>

Next ==
    \/ main_load
    \/ construct
    \/ generate_time_series
    \/ hqla_holdings
    \/ hqla_to_csv
    \/ deposit_balances
    \/ deposits_to_csv
    \/ return

Spec == Init /\ [][Next]_vars

(***************************************************************************)
(* The command run a second time, into the same output directory.          *)
(***************************************************************************)
\* The files a run wrote, by name.
FilesWritten == [name \in Range(written) |-> disk[name]]

\* What is kept of a run that ended, by return or by an exception.
Outcome ==
    [argv |-> argv, start_date |-> main.start_date, customer_ids |-> main.customer_ids,
     actual_num_customers |-> main.actual_num_customers,
     written |-> written, files |-> FilesWritten,
     total_hqla |-> ts.total_hqla, total_deposits |-> ts.total_deposits,
     error |-> error]

\* The command lines of the second run: the same, or one option changed.
SecondArgv(a) ==
    {a,
     [a EXCEPT !.target_lcr = 105],
     [a EXCEPT !.seed = (a.seed % MaxSeed) + 1],
     [a EXCEPT !.days = (a.days % MaxDays) + 1]}

\* A new process of the command, with nothing of the last one but the files.
Restarted ==
    /\ pc' = "start"
    /\ main' = None
    /\ gen' = None
    /\ ts' = None
    /\ df_hqla' = EmptyFrame
    /\ df_deposits' = EmptyFrame
    /\ num_accounts_per_customer' = <<>>
    /\ written' = <<>>
    /\ error' = None
    /\ UNCHANGED <<config, disk, employee_generator, hierarchy, agent_call>>

\* The command is run again after a complete first run: with the same command
\* line or one option changed, and, for the same command line, possibly with
\* the output directory failing at one of the writes.
rerun ==
    /\ pc = "returned"
    /\ prev = <<>>
    /\ prev' = <<Outcome>>
    /\ \E a \in SecondArgv(argv), f \in 0..(2 * argv.days), torn \in BOOLEAN :
        /\ f > 0 => a = argv
        /\ torn => f > 0
        /\ argv' = a
        /\ env' = [env EXCEPT !.write_fails = f, !.torn = torn]
    /\ Restarted

\* The command is run once more after the run that failed at a write, the
\* directory being writable again.
retry ==
    /\ pc = "raised"
    /\ Len(prev) = 1
    /\ prev' = Append(prev, Outcome)
    /\ env' = [env EXCEPT !.write_fails = 0, !.torn = FALSE]
    /\ UNCHANGED argv
    /\ Restarted

InitPair ==
    \E days \in 1..MaxDays, file \in {NoCustomerFile, CustomerFile(<<CustA, CustB>>)},
       seed \in 1..MaxSeed :
        Started(Argv(days, 2, Some(isoformat(Date(2023, 12, 31))), file.arg, seed, 95),
                Env(file, 0, FALSE), ReferenceTables)

NextPair ==
    \/ main_load
    \/ construct
    \/ generate_time_series
    \/ hqla_holdings
    \/ hqla_to_csv
    \/ deposit_balances
    \/ deposits_to_csv
    \/ return
    \/ rerun
    \/ retry

SpecPair == InitPair /\ [][NextPair]_vars

(***************************************************************************)
(* EmployeeGenerator (src/employee_generator.py).                          *)
(*                                                                         *)
(* A country name is a record of a word and a number, so that an input may *)
(* hold any number of distinct countries.  What Faker draws for an         *)
(* employee is kept as a token naming the draw: no step reads its value.   *)
(***************************************************************************)
MaxCountries == 2

\* The business rules of lines 58-60, as the literals of lines 145, 156, 159.
CustomersPerAdvisor == 200
AdvisorsPerTeamLeader == 10
TeamLeadersPerSuperLeader == 10

Max(a, b) == IF a > b THEN a ELSE b

\* math.ceil(n / d) for a natural n and a positive d.
Ceil(n, d) == (n + d - 1) \div d

Country(name, no) == [name |-> name, no |-> no]

\* The text "".
EmptyText == [text |-> "", digits |-> <<>>]

\* Lines 88-93.
regional_groupings ==
    << [region |-> "NORDIC", country |-> Country("Sweden", 0)],
       [region |-> "CENTRAL_EUROPE", country |-> Country("Germany", 0)],
       [region |-> "WESTERN_EUROPE", country |-> Country("France", 0)],
       [region |-> "SOUTHERN_EUROPE", country |-> Country("Italy", 0)] >>

\* Lines 383-390.
Certifications(position_level) ==
    CASE position_level = "CLIENT_ADVISOR" ->
            <<"CFA Level I", "Financial Planning Certification">>
      [] position_level = "TEAM_LEADER" ->
            <<"CFA Level II", "Leadership Certification", "Risk Management">>
      [] position_level = "SUPER_TEAM_LEADER" ->
            <<"CFA Charter", "MBA", "Executive Leadership Program">>
      [] OTHER -> <<>>

\* Lines 64-68: a fresh generator.
EmployeeGenerator == [employees |-> <<>>, assignments |-> <<>>, employee_counter |-> 1]

\* The employee built with the manager forgotten.
EmployeeWithoutManager(employee_counter, position_level, country, region, manager_id) ==
    [employee_id |-> [text |-> "EMP_", digits |-> Fmt(employee_counter, 5)],
     hire_date |-> [faker |-> "date_between", draw |-> employee_counter],
     employment_status |-> "ACTIVE",
     country |-> country,
     position_level |-> position_level,
     manager_employee_id |-> EmptyText,
     region |-> region,
     certifications |-> Certifications(position_level),
     assigned_customers |-> <<>>]

\* Lines 304, 315-336: the employee _create_employee builds with the counter
\* at employee_counter; manager_id is None or an employee id.
Employee(employee_counter, position_level, country, region, manager_id) ==
    [employee_id |-> [text |-> "EMP_", digits |-> Fmt(employee_counter, 5)],
     hire_date |-> [faker |-> "date_between", draw |-> employee_counter],
     employment_status |-> "ACTIVE",
     country |-> country,
     position_level |-> position_level,
     manager_employee_id |-> IF manager_id = None THEN EmptyText ELSE manager_id[1],
     region |-> region,
     certifications |-> Certifications(position_level),
     assigned_customers |-> <<>>]

\* Lines 305, 338: the generator after _create_employee has appended emp.
Created(generator, emp) ==
    [generator EXCEPT !.employees = Append(@, emp), !.employee_counter = @ + 1]

\* Lines 349-358.
ClientAssignment(assignment_counter, customer_id, advisor) ==
    [assignment_id |-> [text |-> "ASSGN_", digits |-> Fmt(assignment_counter, 6)],
     customer_id |-> customer_id,
     advisor_employee_id |-> advisor.employee_id,
     assignment_start_date |-> advisor.hire_date,
     assignment_end_date |-> EmptyText,
     assignment_reason |-> "INITIAL_ONBOARDING",
     is_current |-> TRUE]

\* Line 145, with the count of a country's customers.
AdvisorsNeededFloor(customer_count) == customer_count \div CustomersPerAdvisor
AdvisorsNeeded(customer_count) == Ceil(customer_count, CustomersPerAdvisor)

\* Line 156.
TeamLeadersNeededFloor(total_advisors) == Max(1, total_advisors \div AdvisorsPerTeamLeader)
TeamLeadersNeeded(total_advisors) == Ceil(total_advisors, AdvisorsPerTeamLeader)

\* Line 159.
SuperLeadersNeededFloor(team_leaders_needed) == Max(1, team_leaders_needed \div TeamLeadersPerSuperLeader)
SuperLeadersNeeded(team_leaders_needed) == Ceil(team_leaders_needed, TeamLeadersPerSuperLeader)

\* Lines 140-151: the dict advisors_by_country, in the order of the input's keys.
AdvisorsByCountry(customers_by_country) ==
    [k \in 1..Len(customers_by_country) |->
        [country |-> customers_by_country[k].country,
         count |-> AdvisorsNeeded(Len(customers_by_country[k].customers)),
         customers |-> Len(customers_by_country[k].customers),
         customer_ids |-> customers_by_country[k].customers]]

\* Lines 153-168, without 'countries', which only _log_structure reads.
Structure(customers_by_country) ==
    LET advisors_by_country == AdvisorsByCountry(customers_by_country)
        total_advisors == SumSeq([k \in 1..Len(advisors_by_country) |->
                                     advisors_by_country[k].count])
        team_leaders_needed == TeamLeadersNeeded(total_advisors)
    IN [super_leaders |-> SuperLeadersNeeded(team_leaders_needed),
        team_leaders |-> team_leaders_needed,
        total_advisors |-> total_advisors,
        advisors_by_country |-> advisors_by_country,
        total_customers |-> SumSeq([k \in 1..Len(advisors_by_country) |->
                                       advisors_by_country[k].customers])]

\* Lines 246-250: sorted(items, key=customers, reverse=True); the sort is
\* stable, so countries with equally many customers keep their order.
CountriesSorted(advisors_by_country) ==
    LET n == Len(advisors_by_country)
        Before(j, i) ==
            \/ advisors_by_country[j].customers > advisors_by_country[i].customers
            \/ /\ advisors_by_country[j].customers = advisors_by_country[i].customers
               /\ j < i
        place == [i \in 1..n |-> 1 + Cardinality({j \in 1..n : Before(j, i)})]
    IN [p \in 1..n |-> advisors_by_country[CHOOSE i \in 1..n : place[i] = p]]

\* Line 257: customers_by_country[country].
CustomersIn(customers_by_country, country) ==
    customers_by_country[CHOOSE k \in 1..Len(customers_by_country) :
                            customers_by_country[k].country = country].customers

\* The state of the LCR data generator, which is not run here.
lcr_vars == <<pc, argv, env, config, main, gen, ts, df_hqla, df_deposits,
              num_accounts_per_customer, disk, written, error, prev>>

NoLcrRun ==
    /\ pc = "none"
    /\ argv = None
    /\ env = None
    /\ config = None
    /\ main = None
    /\ gen = None
    /\ ts = None
    /\ df_hqla = EmptyFrame
    /\ df_deposits = EmptyFrame
    /\ num_accounts_per_customer = <<>>
    /\ disk = <<>>
    /\ written = <<>>
    /\ error = None
    /\ prev = None

\* Lines 95-111: generate_employees_and_assignments is called on generator.
Called(generator, customers_by_country) ==
    /\ employee_generator = generator
    /\ hierarchy = [pc |-> "needs",
                    customers_by_country |-> customers_by_country,
                    structure |-> None,
                    super_leaders |-> <<>>,
                    team_leaders |-> <<>>,
                    countries_sorted |-> <<>>,
                    advisors |-> <<>>,
                    i |-> 0,
                    country_idx |-> 0,
                    advisor_num |-> 0,
                    current_tl_idx |-> 0,
                    assignment_counter |-> 1]

\* Line 111.
calculate_employee_needs ==
    /\ hierarchy.pc = "needs"
    /\ hierarchy' = [hierarchy EXCEPT
                        !.structure = Some(Structure(hierarchy.customers_by_country)),
                        !.pc = "super_leaders"]
    /\ UNCHANGED <<lcr_vars, employee_generator, agent_call>>

\* Lines 185-200: one turn of the loop of _create_super_leaders, or its end.
create_super_leaders ==
    /\ hierarchy.pc = "super_leaders"
    /\ IF hierarchy.i < hierarchy.structure[1].super_leaders
       THEN LET emp == Employee(employee_generator.employee_counter, "SUPER_TEAM_LEADER",
                                Country("Switzerland", 0), "EMEA", None)
            IN /\ employee_generator' = Created(employee_generator, emp)
               /\ hierarchy' = [hierarchy EXCEPT !.super_leaders = Append(@, emp),
                                                 !.i = @ + 1]
       ELSE /\ hierarchy' = [hierarchy EXCEPT !.pc = "team_leaders", !.i = 0]
            /\ UNCHANGED employee_generator
    /\ UNCHANGED <<lcr_vars, agent_call>>

\* Lines 202-223: one turn of the loop of _create_team_leaders, or its end
\* (lines 243-253 follow: the countries are sorted).
create_team_leaders ==
    /\ hierarchy.pc = "team_leaders"
    /\ IF hierarchy.i < hierarchy.structure[1].team_leaders
       THEN LET i == hierarchy.i
                manager == hierarchy.super_leaders[(i % Len(hierarchy.super_leaders)) + 1]
                region_info == regional_groupings[(i % Len(regional_groupings)) + 1]
                emp == Employee(employee_generator.employee_counter, "TEAM_LEADER",
                                region_info.country, region_info.region,
                                Some(manager.employee_id))
            IN /\ employee_generator' = Created(employee_generator, emp)
               /\ hierarchy' = [hierarchy EXCEPT !.team_leaders = Append(@, emp),
                                                 !.i = @ + 1]
       ELSE /\ hierarchy' =
                [hierarchy EXCEPT
                    !.pc = "advisors",
                    !.countries_sorted =
                        CountriesSorted(hierarchy.structure[1].advisors_by_country),
                    !.country_idx = 0,
                    !.advisor_num = 0,
                    !.current_tl_idx = 0]
            /\ UNCHANGED employee_generator
    /\ UNCHANGED <<lcr_vars, agent_call>>

\* Lines 255-283: one turn of the inner loop of _create_advisors_by_country,
\* the step to the next country, or the end of the outer loop.
create_advisors_by_country ==
    /\ hierarchy.pc = "advisors"
    /\ IF hierarchy.country_idx >= Len(hierarchy.countries_sorted)
       THEN /\ hierarchy' = [hierarchy EXCEPT !.pc = "assign", !.i = 0,
                                              !.assignment_counter = 1]
            /\ UNCHANGED employee_generator
       ELSE LET info == hierarchy.countries_sorted[hierarchy.country_idx + 1]
                advisors_needed == info.count
                customers_in_country ==
                    CustomersIn(hierarchy.customers_by_country, info.country)
                advisor_num == hierarchy.advisor_num
                team_leader ==
                    hierarchy.team_leaders[
                        (hierarchy.current_tl_idx % Len(hierarchy.team_leaders)) + 1]
                start_idx == advisor_num * CustomersPerAdvisor
                end_idx == Min(start_idx + CustomersPerAdvisor, Len(customers_in_country))
                emp == [Employee(employee_generator.employee_counter, "CLIENT_ADVISOR",
                                 info.country, team_leader.region,
                                 Some(team_leader.employee_id))
                        EXCEPT !.assigned_customers =
                                   SubSeq(customers_in_country, start_idx + 1, end_idx)]
            IN IF advisor_num < advisors_needed
               THEN /\ employee_generator' = Created(employee_generator, emp)
                    /\ hierarchy' = [hierarchy EXCEPT !.advisors = Append(@, emp),
                                                      !.advisor_num = @ + 1,
                                                      !.current_tl_idx = @ + 1]
               ELSE /\ hierarchy' = [hierarchy EXCEPT !.country_idx = @ + 1,
                                                      !.advisor_num = 0]
                    /\ UNCHANGED employee_generator
    /\ UNCHANGED <<lcr_vars, agent_call>>

\* Lines 341-362 and 126-128: one advisor's turn of the loop of
\* _assign_customers_to_advisors, or its end and the return.
assign_customers_to_advisors ==
    /\ hierarchy.pc = "assign"
    /\ IF hierarchy.i < Len(hierarchy.advisors)
       THEN LET advisor == hierarchy.advisors[hierarchy.i + 1]
                customers == advisor.assigned_customers
                records == [k \in 1..Len(customers) |->
                               ClientAssignment(hierarchy.assignment_counter + k - 1,
                                                customers[k], advisor)]
            IN /\ employee_generator' =
                      [employee_generator EXCEPT !.assignments = @ \o records]
               /\ hierarchy' = [hierarchy EXCEPT !.i = @ + 1,
                                                 !.assignment_counter = @ + Len(customers)]
       ELSE /\ hierarchy' = [hierarchy EXCEPT !.pc = "returned"]
            /\ UNCHANGED employee_generator
    /\ UNCHANGED <<lcr_vars, agent_call>>

\* The inputs: dicts of country -> customer ids, the ids pairwise distinct;
\* few countries with any of the counts, and many countries of one customer.
Distributions ==
    LET CountryNames == <<"Germany", "France", "Sweden", "Italy">>
        InputCountry(k) ==
            IF k <= Len(CountryNames) THEN Country(CountryNames[k], 0)
            ELSE Country("Country", k)
        \* counts[k] customers in the k-th country.
        CustomersByCountry(counts) ==
            [k \in 1..Len(counts) |->
                [country |-> InputCountry(k),
                 customers |-> [j \in 1..counts[k] |->
                                   CustomerId("CUST_", 1000 * k + j, 5)]]]
        CustomerCounts == {0, 1, 200, 201, 401}
    IN {CustomersByCountry(counts) :
           counts \in UNION {[1..n -> CustomerCounts] : n \in 0..MaxCountries}}
       \cup {CustomersByCountry([k \in 1..n |-> 1]) : n \in {11, 100, 101}}

InitEmployees ==
    /\ NoLcrRun
    /\ agent_call = None
    /\ \E customers_by_country \in Distributions :
        Called(EmployeeGenerator, customers_by_country)

NextEmployees ==
    \/ calculate_employee_needs
    \/ create_super_leaders
    \/ create_team_leaders
    \/ create_advisors_by_country
    \/ assign_customers_to_advisors

SpecEmployees == InitEmployees /\ [][NextEmployees]_vars

(***************************************************************************)
(* call_agent_rest_api (src/the_bank_app/utils/agent_caller.py).           *)
(*                                                                         *)
(* A text is the sequence of its pieces, "" being <<>>; a line of the      *)
(* response is a record of what the code tests of it: its prefix (kind),   *)
(* the event it names, and for a data line what follows the prefix and,    *)
(* where that is JSON, the dict json.loads makes of it.                    *)
(***************************************************************************)
MaxLines == 3

\* ''.join(chunks) and sep.join(chunks), the chunks being texts.
RECURSIVE Join(_, _)
Join(sep, chunks) ==
    IF chunks = <<>> THEN <<>>
    ELSE IF Len(chunks) = 1 THEN chunks[1]
    ELSE chunks[1] \o sep \o Join(sep, Tail(chunks))

\* bool(x) of a text or None kept as an optional text.
Truthy(optional_text) == optional_text # None /\ optional_text[1] # <<>>

\* The lines a response may hold.  The dict of a data line has each key absent
\* (None) or present.
Lines ==
    LET Data(text, err, status, message) ==
            [text |-> text, error |-> err, status |-> status, message |-> message]
        NoData == Data(None, None, None, None)
        Line(kind, name, payload, data) ==
            [kind |-> kind, name |-> name, payload |-> payload, data |-> data]
        BlankLine == Line("blank", "", "", NoData)
        EventLine(name) == Line("event", name, "", NoData)
        DataLine(data) == Line("data", "", "json", data)
        DoneLine == Line("data", "", "[DONE]", NoData)
        NotJsonLine == Line("data", "", "other", NoData)
        \* No line: iter_lines raises, the read having timed out.  requests
        \* raises its ConnectionError for it, which is no requests Timeout;
        \* the payload is str(e), which names the connection pool of the
        \* response (None where its raw stream has none).
        ReadTimeout(message) == Line("raise", "", message, NoData)
        TextDelta(text) == DataLine(Data(Some(text), None, None, None))
        \* {"error": {"message": m}}
        ErrorObject(message) ==
            DataLine(Data(None, Some([is_dict |-> TRUE, message |-> Some(message)]),
                          None, None))
        \* {"error": "..."}
        ErrorString ==
            DataLine(Data(None, Some([is_dict |-> FALSE, message |-> None]), None, None))
        \* {"text": "...", "error": "..."}
        TextAndErrorString(text) ==
            DataLine(Data(Some(text), Some([is_dict |-> FALSE, message |-> None]),
                          None, None))
        \* {"status": "error"}
        StatusError == DataLine(Data(None, None, Some("error"), None))
    IN {BlankLine, EventLine("response.text.delta"), EventLine("response.thinking.delta"),
        TextDelta(<<"Hi">>), TextDelta(<<"Hm">>), TextDelta(<<>>), ErrorObject(<<"boom">>), ErrorObject(<<>>),
        ErrorString, TextAndErrorString(<<"Hi">>), StatusError, DoneLine, NotJsonLine,
        ReadTimeout("HTTPSConnectionPool(host='acct.snowflakecomputing.com', port=443): Read timed out."),
        ReadTimeout("None: Read timed out.")}

\* The responses read: every one of up to MaxLines lines, and longer ones
\* with thinking and text deltas, lines after [DONE] and an error among text.
Streams ==
    LET Event(name) == CHOOSE l \in Lines : l.kind = "event" /\ l.name = name
        Text(text) == CHOOSE l \in Lines :
                          l.kind = "data" /\ l.data.text = Some(text) /\ l.data.error = None
        Done == CHOOSE l \in Lines : l.payload = "[DONE]"
        Boom == CHOOSE l \in Lines :
                    /\ l.data.error # None
                    /\ l.data.error[1].message = Some(<<"boom">>)
        Blank == CHOOSE l \in Lines : l.kind = "blank"
        Thinking == Event("response.thinking.delta")
        Answer == Event("response.text.delta")
    IN UNION {[1..n -> Lines] : n \in 0..MaxLines}
       \cup {<<Thinking, Text(<<"Hm">>), Answer, Text(<<"Hi">>), Text(<<"Hm">>), Done,
               Boom, Text(<<"Hi">>)>>,
             <<Answer, Text(<<"Hi">>), Thinking, Text(<<"Hi">>), Blank, Answer,
               Text(<<"Hm">>), Done>>,
             <<Answer, Text(<<"Hi">>), Boom, Text(<<"Hm">>), Done>>,
             <<Answer, Text(<<"Hi">>), Done, Answer, Text(<<"Hm">>), Done>>}

\* How lines 52-116 may go: where the credentials come from (st.secrets, the
\* session's connection, or neither), the statement that raises if one does
\* ("" where none does), whether the session's connection has a REST token
\* (line 95), and the account and token got.  The account of st.secrets is a
\* text; that of CURRENT_ACCOUNT() and either token may be None.
AuthOutcomes ==
    LET Auth(source, raises, has_token, account, token) ==
            [source |-> source, raises |-> raises, has_token |-> has_token,
             account |-> account, token |-> token]
        Texts(text) == {None, Some(<<>>), Some(text)}
    IN {Auth("secrets", "", TRUE, account, token) :
            account \in Texts(<<"acct">>) \ {None}, token \in Texts(<<"tok">>)}
       \cup {Auth("secrets", raises, FALSE, None, None) :
                raises \in {"secrets", "connect", "token"}}
       \cup {Auth("session", "", TRUE, account, token) :
                account \in Texts(<<"acct">>), token \in Texts(<<"tok">>)}
       \cup {Auth("session", "", FALSE, account, None) : account \in Texts(<<"acct">>)}
       \cup {Auth("session", raises, FALSE, None, None) : raises \in {"cursor", "fetchone"}}
       \cup {Auth("none", "", FALSE, None, None)}

\* str(e) of the exception a statement of lines 52-102 raises: the KeyError
\* of secrets["account"] (line 56), the error of connect (line 78), the
\* AttributeError of temp_conn.rest.token where rest is None (line 79), the
\* error of cursor.execute (line 90) and the TypeError of fetchone()[0] where
\* there is no row (line 91).
AuthException(raises) ==
    CASE raises = "secrets" -> "'account'"
      [] raises = "connect" -> "connect failed"
      [] raises = "token" -> "'NoneType' object has no attribute 'token'"
      [] raises = "cursor" -> "cursor failed"
      [] raises = "fetchone" -> "'NoneType' object is not subscriptable"

\* How requests.post (lines 150-157) may go: it raises (text is then str(e))
\* or returns a response.
Responses ==
    LET Response(raises, status_code, text, lines) ==
            [raises |-> raises, status_code |-> status_code, text |-> text,
             lines |-> lines]
    IN {Response("Timeout", 0, <<>>, <<>>), Response("ConnectionError", 0, <<"connection failed">>, <<>>),
        Response("", 500, <<"Internal Server Error">>, <<>>),
        Response("", 401, <<>>, <<>>)}
       \cup {Response("", 200, <<>>, lines) : lines \in Streams}

\* Lines 29-34.
Result == [success |-> FALSE, response |-> None, error |-> None, raw_stream |-> <<>>]

\* result with result[key] = value, the key being new or not.
SetItem(result, key, value) ==
    [k \in DOMAIN result \cup {key} |-> IF k = key THEN value ELSE result[k]]

\* if temp_conn: temp_conn.close()
Closed(temp_conn) == IF temp_conn = None THEN None ELSE Some("closed")

\* Line 16: the call, agent_full_name being the text between the dots.
CalledAgent(agent_full_name, timeout) ==
    agent_call = [pc |-> "called",
                  agent_full_name |-> agent_full_name,
                  timeout |-> timeout,
                  result |-> Result,
                  temp_conn |-> None,
                  stream |-> None,
                  lines |-> <<>>,
                  thinking_chunks |-> <<>>,
                  text_chunks |-> <<>>,
                  error_messages |-> <<>>,
                  current_event |-> None]

\* The function returns result, with error set where e is a message.
Returns(call, e) ==
    [call EXCEPT !.pc = "returned",
                 !.result = IF e = None THEN @ ELSE SetItem(@, "error", e)]

\* Lines 29-45.
parse_agent_name ==
    /\ agent_call.pc = "called"
    /\ agent_call' =
        IF Len(agent_call.agent_full_name) # 3
        THEN Returns(agent_call,
                     Some(<<"Invalid agent name format. Expected DATABASE.SCHEMA.AGENT_NAME, got ">>
                          \o agent_call.agent_full_name))
        ELSE [agent_call EXCEPT !.pc = "auth"]
    /\ UNCHANGED <<lcr_vars, employee_generator, hierarchy>>

\* Lines 49-116.  temp_conn is set once connect has returned (line 78): the
\* handler of lines 112-116 closes it where reading its token raises, and the
\* return of lines 108-110 leaves it open.
authenticate ==
    /\ agent_call.pc = "auth"
    /\ \E auth \in AuthOutcomes :
        agent_call' =
            CASE auth.source = "secrets" /\ auth.raises \in {"secrets", "connect"} ->
                    Returns(agent_call, Some(<<"Auth error: ", AuthException(auth.raises)>>))
              [] auth.source = "secrets" /\ auth.raises = "token" ->
                    Returns([agent_call EXCEPT !.temp_conn = Closed(Some("open"))],
                            Some(<<"Auth error: ", AuthException(auth.raises)>>))
              [] auth.source = "session" /\ auth.raises # "" ->
                    Returns(agent_call,
                            Some(<<"Session token extraction failed: ",
                                   AuthException(auth.raises)>>))
              [] auth.source = "session" /\ auth.raises = "" /\ ~auth.has_token ->
                    Returns(agent_call, Some(<<"Could not extract REST token from session">>))
              [] auth.source = "none" ->
                    Returns(agent_call, Some(<<"No Snowflake connection or secrets available">>))
              [] OTHER ->
                    LET connected ==
                            [agent_call EXCEPT
                                !.temp_conn = IF auth.source = "secrets"
                                              THEN Some("open") ELSE None]
                    IN IF ~Truthy(auth.account) \/ ~Truthy(auth.token)
                       THEN Returns(connected,
                                    Some(<<"Missing auth: account=",
                                           IF Truthy(auth.account) THEN "True" ELSE "False",
                                           ", token=",
                                           IF Truthy(auth.token) THEN "True" ELSE "False">>))
                       ELSE [connected EXCEPT !.pc = "post"]
    /\ UNCHANGED <<lcr_vars, employee_generator, hierarchy>>

\* Lines 118-167, and 231-241 where requests.post raises: its Timeout is caught
\* at line 231, any other exception at line 237.
post ==
    /\ agent_call.pc = "post"
    /\ \E response \in Responses :
        agent_call' =
            CASE response.raises = "Timeout" ->
                    Returns([agent_call EXCEPT !.temp_conn = Closed(@)],
                            Some(<<"Request timeout after ", ToString(agent_call.timeout), "s">>))
              [] response.raises = "ConnectionError" ->
                    Returns([agent_call EXCEPT !.temp_conn = Closed(@)],
                            Some(<<"Error calling agent: ">> \o response.text))
              [] response.raises = "" /\ response.status_code # 200 ->
                    Returns(agent_call,
                            Some(<<"HTTP ", ToString(response.status_code), ": ">>
                                 \o response.text))
              [] OTHER ->
                    [agent_call EXCEPT !.pc = "stream", !.stream = Some(response.lines),
                                       !.lines = response.lines]
    /\ UNCHANGED <<lcr_vars, employee_generator, hierarchy>>

\* The chunks with every text taken for the answer, whatever the event.
TextCollectedWhateverEvent(call, data) ==
    IF data.text = None THEN call
    ELSE [call EXCEPT !.text_chunks = Append(@, data.text[1])]

\* Lines 189-198: the chunks after the text of the dict data of a data line.
TextCollected(call, data) ==
    IF data.text = None THEN call
    ELSE IF call.current_event = Some("response.thinking.delta")
         THEN [call EXCEPT !.thinking_chunks = Append(@, data.text[1])]
    ELSE IF call.current_event = Some("response.text.delta")
         THEN [call EXCEPT !.text_chunks = Append(@, data.text[1])]
    ELSE call

\* Lines 189-206: the chunks and messages after the dict data of a data line,
\* where handling it raises nothing.
Collected(call, data) ==
    LET with_text == TextCollected(call, data)
        with_error ==
            IF data.error = None THEN with_text
            ELSE [with_text EXCEPT
                     !.error_messages =
                         Append(@, IF data.error[1].message = None
                                   THEN <<"{}">> ELSE data.error[1].message[1])]
    IN IF data.status = Some("error")
       THEN [with_error EXCEPT
                !.error_messages =
                    Append(@, IF data.message = None
                              THEN <<"Unknown error">> ELSE data.message[1])]
       ELSE with_error

\* Line 202 raises where the value of 'error' is no dict: it has no get.  The
\* text of the line has been collected by then (lines 189-198).
CollectRaises(data) == data.error # None /\ ~data.error[1].is_dict

\* Lines 169-210: one turn of the loop over response.iter_lines(), and lines
\* 237-241 where the turn raises: neither the ConnectionError of a read that
\* timed out nor the AttributeError of line 202 is caught at line 231.
read_line ==
    /\ agent_call.pc = "stream"
    /\ agent_call.lines # <<>>
    /\ LET line == Head(agent_call.lines)
           next == [agent_call EXCEPT !.lines = Tail(@)]
           decoded == [next EXCEPT !.result.raw_stream = Append(@, line)]
       IN agent_call' =
            CASE line.kind = "raise" ->
                    Returns([agent_call EXCEPT !.temp_conn = Closed(@)],
                            Some(<<"Error calling agent: ", line.payload>>))
              [] line.kind = "blank" -> next
              [] line.kind = "event" -> [decoded EXCEPT !.current_event = Some(line.name)]
              [] line.kind = "data" /\ line.payload = "[DONE]" -> [decoded EXCEPT !.lines = <<>>]
              [] line.kind = "data" /\ line.payload = "other" -> decoded
              [] line.kind = "data" /\ line.payload = "json" /\ CollectRaises(line.data) ->
                    Returns([TextCollected(decoded, line.data) EXCEPT
                                !.temp_conn = Closed(@)],
                            Some(<<"Error calling agent: ",
                                   "'str' object has no attribute 'get'">>))
              [] OTHER -> Collected(decoded, line.data)
    /\ UNCHANGED <<lcr_vars, employee_generator, hierarchy>>

\* Lines 212-229: after the loop.
finish ==
    /\ agent_call.pc = "stream"
    /\ agent_call.lines = <<>>
    /\ agent_call' =
        IF agent_call.error_messages # <<>>
        THEN Returns(agent_call, Some(Join(<<" | ">>, agent_call.error_messages)))
        ELSE IF agent_call.text_chunks # <<>>
        THEN [agent_call EXCEPT
                !.pc = "returned",
                !.temp_conn = Closed(@),
                !.result =
                    SetItem(SetItem(SetItem(@, "response",
                                            Some(Join(<<>>, agent_call.text_chunks))),
                                    "thinking",
                                    IF agent_call.thinking_chunks # <<>>
                                    THEN Some(Join(<<>>, agent_call.thinking_chunks))
                                    ELSE None),
                            "success", TRUE)]
        ELSE Returns([agent_call EXCEPT !.temp_conn = Closed(@)],
                     Some(<<"No response received from agent (empty stream). Received ",
                            ToString(Len(agent_call.result.raw_stream)),
                            " lines, event types: ",
                            IF agent_call.current_event = None
                            THEN "None" ELSE agent_call.current_event[1]>>))
    /\ UNCHANGED <<lcr_vars, employee_generator, hierarchy>>

InitAgent ==
    /\ NoLcrRun
    /\ employee_generator = None
    /\ hierarchy = None
    /\ \E agent_full_name \in {<<"DB", "SCHEMA", "AGENT">>, <<"SCHEMA", "AGENT">>} :
        CalledAgent(agent_full_name, 60)

NextAgent ==
    \/ parse_agent_name
    \/ authenticate
    \/ post
    \/ read_line
    \/ finish

SpecAgent == InitAgent /\ [][NextAgent]_vars

(***************************************************************************)
(* Properties.                                                             *)
(***************************************************************************)

\* The states in which generate_deposit_balances has just returned.
DepositsReturned == pc = "deposits_to_csv"
\* The states in which generate_hqla_holdings has just returned.
HoldingsReturned == pc = "hqla_to_csv"
\* The states of generate_time_series, from the loop on.
InTimeSeries == pc \in {"loop", "hqla_to_csv", "deposits", "deposits_to_csv", "returned"}

\* The records of customer c in a frame, in emission order.
RecordsOf(df, c) == SelectSeq(df.rows, LAMBDA r : r.CUSTOMER_ID = c)

\* The number of accounts sampled for customer c: the sum of
\* num_accounts_per_customer over the positions of c in customer_ids.
RECURSIVE AccountsSampled(_, _, _, _)
AccountsSampled(customer_ids, counts, c, k) ==
    IF k > Len(customer_ids) THEN 0
    ELSE (IF customer_ids[k] = c THEN counts[k] ELSE 0)
         + AccountsSampled(customer_ids, counts, c, k + 1)

\* C2: in every call of generate_deposit_balances, on every day, the records
\* of each customer carry that customer's id and the ordinals 1, 2, ..., k in
\* emission order, k being the number of accounts sampled for the customer
\* in that call, whatever deposit types were drawn.
C2_OrdinalsPerCustomer ==
    DepositsReturned =>
        \A c \in Range(ts.customer_ids) :
            LET recs == RecordsOf(df_deposits, c)
            IN /\ Len(recs) = AccountsSampled(ts.customer_ids, num_accounts_per_customer, c, 1)
               /\ \A n \in 1..Len(recs) :
                    /\ recs[n].ACCOUNT_ID.customer = c
                    /\ recs[n].ACCOUNT_ID.sep = "_DEP_"
                    /\ ParseInt(recs[n].ACCOUNT_ID.ordinal) = n

\* A later day's call in which two customers have records and one customer has
\* two records of different deposit types, the second numbered 2.
C2_Witness ==
    /\ DepositsReturned
    /\ ts.day >= 1
    /\ Cardinality(Range(ts.customer_ids)) >= 2
    /\ \E i, j \in 1..Len(df_deposits.rows) :
        /\ i < j
        /\ df_deposits.rows[i].CUSTOMER_ID = df_deposits.rows[j].CUSTOMER_ID
        /\ df_deposits.rows[i].DEPOSIT_TYPE # df_deposits.rows[j].DEPOSIT_TYPE
        /\ ParseInt(df_deposits.rows[j].ACCOUNT_ID.ordinal) = 2
    /\ \E i \in 2..Len(df_deposits.rows) :
        /\ df_deposits.rows[i].CUSTOMER_ID # df_deposits.rows[1].CUSTOMER_ID
        /\ ParseInt(df_deposits.rows[i].ACCOUNT_ID.ordinal) = 1

\* C4: every deposit record with IS_INSURED true has COUNTERPARTY_TYPE RETAIL
\* and a BALANCE_CHF of at most 100000.
C4_InsuredOnlyRetailSmall ==
    DepositsReturned =>
        \A k \in 1..Len(df_deposits.rows) :
            LET r == df_deposits.rows[k]
            IN r.IS_INSURED =>
                /\ r.COUNTERPARTY_TYPE = "RETAIL"
                /\ (r.BALANCE_CHF[1] < 100000 \/ r.BALANCE_CHF = <<100000, 0>>)

\* A call that emitted an insured record, and a record of at most 100000 that
\* is not insured.
C4_Witness ==
    /\ DepositsReturned
    /\ \E k \in 1..Len(df_deposits.rows) : df_deposits.rows[k].IS_INSURED
    /\ \E k \in 1..Len(df_deposits.rows) :
        /\ ~df_deposits.rows[k].IS_INSURED
        /\ df_deposits.rows[k].BALANCE_CHF[1] < 100000

\* The segment the thresholds 50000 and 250000 give.
SegmentByThresholds(counterparty_type, balance) ==
    IF counterparty_type # "RETAIL" THEN "CORPORATE"
    ELSE IF balance[1] < 50000 THEN "MASS"
    ELSE IF balance[1] < 250000 THEN "AFFLUENT"
    ELSE "PRIVATE"

\* C5: the CUSTOMER_SEGMENT of every deposit record is the value the fixed
\* thresholds give for its COUNTERPARTY_TYPE and BALANCE_CHF: MASS below
\* 50000, AFFLUENT from 50000 to below 250000, PRIVATE from 250000 for RETAIL,
\* CORPORATE for any other counterparty.
C5_SegmentIsFunction ==
    DepositsReturned =>
        \A k \in 1..Len(df_deposits.rows) :
            LET r == df_deposits.rows[k]
            IN r.CUSTOMER_SEGMENT = SegmentByThresholds(r.COUNTERPARTY_TYPE, r.BALANCE_CHF)

\* |ccy * fx_rate - chf| for amounts in cents and a rate in 1/10000, as an
\* amount in ten-thousandths.
FxGap(ccy, chf, fx_rate) ==
    LET g == GCD(10000, fx_rate)
        back == MulDiv(<<ccy[1], ccy[2] * 100>>, fx_rate \div g, 10000 \div g)
        base == <<chf[1], chf[2] * 100>>
    IN IF AmtLess(back, base) THEN SubAmt(base, back) ELSE SubAmt(back, base)

\* Half a cent for each of the two rounded amounts: 0.005 * (1 + fx_rate).
WithinRounding(gap, fx_rate) == gap[1] = 0 /\ 200 * gap[2] <= 10000 + fx_rate

\* The reference rates of __init__ (lines 89-94).
ReferenceRate(currency) ==
    IF currency = "CHF" THEN 10000
    ELSE IF currency = "EUR" THEN 9500
    ELSE IF currency = "USD" THEN 8800
    ELSE 11200

FxConsistent(currency, ccy, chf, fx_rate) ==
    /\ fx_rate = ReferenceRate(currency)
    /\ WithinRounding(FxGap(ccy, chf, fx_rate), fx_rate)
    /\ currency = "CHF" => fx_rate = 10000 /\ ccy = chf

\* C6: in every holding and deposit record FX_RATE is the reference rate of
\* the record's currency, the in-currency amount times FX_RATE is the CHF
\* amount up to the rounding of the two amounts to 2 decimals, and a CHF
\* record has FX_RATE 1.0 and equal amounts.
C6_FxConsistency ==
    /\ HoldingsReturned =>
        \A k \in 1..Len(df_hqla.rows) :
            LET r == df_hqla.rows[k]
            IN FxConsistent(r.CURRENCY, r.MARKET_VALUE_CCY, r.MARKET_VALUE_CHF, r.FX_RATE)
    /\ DepositsReturned =>
        \A k \in 1..Len(df_deposits.rows) :
            LET r == df_deposits.rows[k]
            IN FxConsistent(r.CURRENCY, r.BALANCE_CCY, r.BALANCE_CHF, r.FX_RATE)

\* A holdings frame with records in all four currencies, one of them converted
\* with a gap that is not zero.
C6_Witness ==
    /\ HoldingsReturned
    /\ \A currency \in {"CHF", "EUR", "USD", "GBP"} :
        \E k \in 1..Len(df_hqla.rows) : df_hqla.rows[k].CURRENCY = currency
    /\ \E k \in 1..Len(df_hqla.rows) :
        LET r == df_hqla.rows[k]
        IN /\ r.CURRENCY # "CHF"
           /\ r.MARKET_VALUE_CCY # r.MARKET_VALUE_CHF
           /\ FxGap(r.MARKET_VALUE_CCY, r.MARKET_VALUE_CHF, r.FX_RATE) # <<0, 0>>

\* The date of the day generate_time_series is processing.
DayDate == AddDays(ts.start_date, ts.day)

\* The AS_OF_DATE cells of a file.
AsOfDates(file) ==
    LET c == ColumnIndex(file.header, "AS_OF_DATE")
    IN [k \in 1..Len(file.rows) |-> file.rows[k][c]]

\* C7: every record generated for day D carries AS_OF_DATE = D, and every row
\* of a file named for date D has AS_OF_DATE = D.
C7_AsOfDateIsDay ==
    /\ HoldingsReturned =>
        \A k \in 1..Len(df_hqla.rows) : ParseIso(df_hqla.rows[k].AS_OF_DATE) = DayDate
    /\ DepositsReturned =>
        \A k \in 1..Len(df_deposits.rows) : ParseIso(df_deposits.rows[k].AS_OF_DATE) = DayDate
    /\ \A name \in DOMAIN disk :
        LET dates == AsOfDates(disk[name])
        IN \A k \in 1..Len(disk[name].rows) : ParseIso(dates[k]) = ParseYmd(name.date)

\* A run of two days ended with four files, the second day's files with rows
\* dated the second day.
C7_Witness ==
    /\ pc = "returned"
    /\ ts.num_days >= 2
    /\ Cardinality(DOMAIN disk) = 4
    /\ \A kind \in {"hqla_holdings", "deposit_balances"} :
        LET name == FileName(kind, AddDays(ts.start_date, 1))
        IN /\ name \in DOMAIN disk
           /\ disk[name].rows # <<>>
           /\ ParseIso(AsOfDates(disk[name])[1]) = AddDays(ts.start_date, 1)

\* C8: called with an empty customer list generate_deposit_balances returns
\* an empty frame and does not raise; supplied an empty list
\* generate_time_series goes through every day, writes both files of every
\* day and returns a deposit total of 0.
C8_EmptyCustomerList ==
    /\ (DepositsReturned /\ ts.customer_ids = <<>>) => df_deposits.rows = <<>>
    /\ (InTimeSeries \/ pc = "raised") /\ main.customer_ids = Some(<<>>) =>
        /\ pc # "raised"
        /\ error = None
        /\ DepositsReturned => df_deposits.rows = <<>>
        /\ ts.total_deposits = 0
        /\ pc = "returned" =>
            /\ ts.day = ts.num_days
            /\ Len(written) = 2 * ts.num_days
            /\ \A d \in 0..(ts.num_days - 1) :
                \A kind \in {"hqla_holdings", "deposit_balances"} :
                    /\ FileName(kind, AddDays(ts.start_date, d)) \in DOMAIN disk
                    /\ FileName(kind, AddDays(ts.start_date, d)) \in Range(written)

\* A run of two days with an empty customer list, returned.
C8_Witness ==
    /\ pc = "returned"
    /\ main.customer_ids = Some(<<>>)
    /\ ts.customer_ids = <<>>
    /\ ts.num_days >= 2
    /\ ts.total_hqla > 0
    /\ Len(written) = 4

\* C9: every file written is the header row of the record type's fields and
\* one row per record generated for the day, also on a day without deposits.
C9_HeaderAndRows ==
    /\ pc = "deposits" =>
        /\ disk[Last(written)].header = HoldingFields
        /\ Len(disk[Last(written)].rows) = Len(df_hqla.rows)
    /\ (pc \in {"loop", "returned"} /\ written # <<>>) =>
        /\ disk[Last(written)].header = DepositFields
        /\ Len(disk[Last(written)].rows) = Len(df_deposits.rows)

\* C10: a list loaded from the customer file is the list generate_time_series
\* uses, empty or not: every deposit record's CUSTOMER_ID is one of its ids and
\* none has the synthetic form; synthetic ids are used only without a list.
C10_SuppliedListUsed ==
    InTimeSeries =>
        /\ (argv.customer_file # None /\ env.customer_file.exists) =>
            main.customer_ids = Some(env.customer_file.ids)
        /\ main.customer_ids # None =>
            /\ ts.customer_ids = main.customer_ids[1]
            /\ DepositsReturned =>
                \A k \in 1..Len(df_deposits.rows) :
                    /\ df_deposits.rows[k].CUSTOMER_ID \in Range(main.customer_ids[1])
                    /\ ~IsSyntheticForm(df_deposits.rows[k].CUSTOMER_ID)
        /\ (\E k \in 1..Len(ts.customer_ids) : IsSyntheticForm(ts.customer_ids[k])) =>
            main.customer_ids = None

\* Deposits generated from a loaded list of two customers, both with records.
C10_Witness ==
    /\ DepositsReturned
    /\ main.customer_ids # None
    /\ Cardinality(Range(main.customer_ids[1])) >= 2
    /\ \A c \in Range(main.customer_ids[1]) :
        \E k \in 1..Len(df_deposits.rows) : df_deposits.rows[k].CUSTOMER_ID = c

\* C1: a second run of the command with the same seed, start date, number of
\* days and customer list as the first writes the same files with the same
\* contents, row by row and in the same order, and returns the same totals.
C1_SameSeedSameOutput ==
    (pc = "returned" /\ prev # None
        /\ argv.seed = prev[1].argv.seed
        /\ main.start_date = prev[1].start_date
        /\ argv.days = prev[1].argv.days
        /\ main.customer_ids = prev[1].customer_ids
        /\ main.actual_num_customers = prev[1].actual_num_customers) =>
            /\ written = prev[1].written
            /\ FilesWritten = prev[1].files
            /\ ts.total_hqla = prev[1].total_hqla
            /\ ts.total_deposits = prev[1].total_deposits

\* A second run of two days with the seed and arguments of the first, both
\* having written four files with holdings and deposits.
C1_Witness ==
    /\ pc = "returned"
    /\ prev # None
    /\ argv.seed = prev[1].argv.seed
    /\ argv.days = prev[1].argv.days
    /\ argv.days >= 2
    /\ Len(written) = 4
    /\ Len(prev[1].written) = 4
    /\ ts.total_deposits > 0
    /\ ts.total_hqla > 0
    /\ disk[written[4]].rows # <<>>

\* C11: when a customer file path is given and the file cannot be read (it is
\* missing or unreadable), main ends with an error before the generator is
\* constructed: nothing is sampled and no file is written.
C11_UnreadableFileIsFatal ==
    (argv.customer_file # None
        /\ ~(env.customer_file.exists /\ env.customer_file.readable)) =>
            /\ pc \in {"start", "raised"}
            /\ written = <<>>
            /\ pc = "raised" => error[1].in = "main"

\* The name of the nth file a run writes (n = 1, 2, ...).
NthFileName(start_date, n) ==
    [kind |-> IF n % 2 = 1 THEN "hqla_holdings" ELSE "deposit_balances",
     date |-> strftime(AddDays(start_date, (n - 1) \div 2)),
     ext |-> "csv"]

\* C12: when the write of a file of day d fails, generate_time_series raises
\* there and returns no totals: the failed write and every later one is never
\* made, and the files written before it (the earlier days', and the day's
\* holdings file when the deposit write failed) are on disk with the contents
\* a complete run gives them.
C12_WriteFailureRaises ==
    env.write_fails > 0 =>
        /\ pc # "returned"
        /\ Len(written) < env.write_fails
        /\ pc = "raised" =>
            /\ error[1] = [type |-> "OSError", in |-> "to_csv"]
            /\ ts.day = (env.write_fails - 1) \div 2
            /\ Len(written) = env.write_fails - 1
            /\ \A n \in 1..Len(written) :
                /\ written[n] = NthFileName(ts.start_date, n)
                /\ written[n] \in DOMAIN disk
                /\ disk[written[n]] = prev[1].files[written[n]]

\* The deposit write of the second day failed: three files are written.
C12_Witness ==
    /\ pc = "raised"
    /\ env.write_fails = 4
    /\ ts.day = 1
    /\ Len(written) = 3
    /\ written[3].kind = "hqla_holdings"
    /\ disk[written[2]].rows # <<>>

\* C16: a run of the command that returns, made into the directory of an
\* earlier complete run with the same seed, explicit start date, days and
\* customer inputs, also after a run that failed at a write, leaves the
\* directory with the files and contents of the one complete run.
C16_RerunIsIdempotent ==
    (pc = "returned" /\ prev # <<>>
        /\ argv.start_date # None
        /\ argv.seed = prev[1].argv.seed
        /\ argv.start_date = prev[1].argv.start_date
        /\ argv.days = prev[1].argv.days
        /\ argv.customer_file = prev[1].argv.customer_file
        /\ argv.customers = prev[1].argv.customers) =>
            /\ DOMAIN disk = DOMAIN prev[1].files
            /\ \A name \in DOMAIN disk : disk[name] = prev[1].files[name]

\* The third run returned, after a second run that failed at the third write
\* and left a torn file.
C16_Witness ==
    /\ pc = "returned"
    /\ Len(prev) = 2
    /\ prev[2].error # None
    /\ Len(prev[2].written) = 2
    /\ argv.days >= 2
    /\ Cardinality(DOMAIN disk) = 4
    /\ \A name \in DOMAIN disk : disk[name].rows # <<>>

\* The data rows in the files of one kind that the run has written, from the
\* nth write on.
RECURSIVE RowsWritten(_, _)
RowsWritten(kind, n) ==
    IF n > Len(written) THEN 0
    ELSE (IF written[n].kind = kind THEN Len(disk[written[n]].rows) ELSE 0)
         + RowsWritten(kind, n + 1)

\* C13: the totals of generate_time_series are, after every day and at its
\* return, the numbers of data rows written to the holdings files and to the
\* deposit files, each file holding as many rows as records were generated
\* for it.
C13_TotalsAreRowCounts ==
    InTimeSeries =>
        /\ ts.total_hqla = RowsWritten("hqla_holdings", 1)
        /\ ts.total_deposits = RowsWritten("deposit_balances", 1)
        /\ pc = "deposits" => Len(disk[Last(written)].rows) = Len(df_hqla.rows)
        /\ (pc \in {"loop", "returned"} /\ written # <<>>) =>
            Len(disk[Last(written)].rows) = Len(df_deposits.rows)

\* A run of two days returned totals that are more than the last day's counts.
C13_Witness ==
    /\ pc = "returned"
    /\ ts.num_days >= 2
    /\ df_deposits.rows # <<>>
    /\ ts.total_deposits > Len(df_deposits.rows)
    /\ ts.total_hqla > Len(df_hqla.rows)

\* C14: the nth file a run writes is the holdings file (n odd) or the deposit
\* file (n even) of the date start_date + (n - 1) div 2, so no file is written
\* twice, and a completed run has written exactly 2 x num_days files, the only
\* files of the directory.
C14_TwoFilesPerDay ==
    InTimeSeries =>
        /\ \A n \in 1..Len(written) :
            /\ written[n].kind = (IF n % 2 = 1 THEN "hqla_holdings" ELSE "deposit_balances")
            /\ ParseYmd(written[n].date) = AddDays(ts.start_date, (n - 1) \div 2)
            /\ written[n].ext = "csv"
            /\ \A k \in 1..(n - 1) : written[k] # written[n]
        /\ Len(written) <= 2 * ts.num_days
        /\ pc = "returned" =>
            /\ Len(written) = 2 * ts.num_days
            /\ DOMAIN disk = Range(written)

\* A completed run of two days that crosses the end of a year: four files.
C14_Witness ==
    /\ pc = "returned"
    /\ ts.num_days = 2
    /\ Len(written) = 4
    /\ Cardinality(DOMAIN disk) = 4
    /\ ParseYmd(written[1].date).year # ParseYmd(written[4].date).year

\* The number of positions of customer c in the list.
Occurrences(customer_ids, c) == Cardinality({k \in 1..Len(customer_ids) : customer_ids[k] = c})

\* C15: generate_hqla_holdings returns 150 to 299 records; for n customer ids
\* generate_deposit_balances samples 1 to 3 accounts per position of the list
\* and returns n to 3n records, every id having between 1 and 3 records per
\* occurrence.
C15_RecordCounts ==
    /\ HoldingsReturned => Len(df_hqla.rows) \in 150..299
    /\ DepositsReturned =>
        /\ Len(num_accounts_per_customer) = Len(ts.customer_ids)
        /\ \A k \in 1..Len(ts.customer_ids) : num_accounts_per_customer[k] \in 1..3
        /\ Len(df_deposits.rows) >= Len(ts.customer_ids)
        /\ Len(df_deposits.rows) <= 3 * Len(ts.customer_ids)
        /\ \A c \in Range(ts.customer_ids) :
            /\ Len(RecordsOf(df_deposits, c)) >= Occurrences(ts.customer_ids, c)
            /\ Len(RecordsOf(df_deposits, c)) <= 3 * Occurrences(ts.customer_ids, c)

\* A call for several customers of which one got 1 account and one got 3.
C15_Witness ==
    /\ DepositsReturned
    /\ Len(ts.customer_ids) >= 2
    /\ \E k \in 1..Len(ts.customer_ids) : num_accounts_per_customer[k] = 1
    /\ \E k \in 1..Len(ts.customer_ids) : num_accounts_per_customer[k] = 3
    /\ \E c \in Range(ts.customer_ids) : Len(RecordsOf(df_deposits, c)) = 3


(***************************************************************************)
(* Properties of the employee hierarchy.                                   *)
(***************************************************************************)
\* The states in which generate_employees_and_assignments has returned.
EmployeesReturned == hierarchy.pc = "returned"

\* The employees of a position in the returned list.
EmployeesAt(position_level) ==
    {e \in Range(employee_generator.employees) : e.position_level = position_level}

\* The employees of a position whose manager is the employee boss.
ManagedBy(boss, position_level) ==
    {e \in EmployeesAt(position_level) : e.manager_employee_id = boss.employee_id}

\* The customers of the input, and those of one of its countries.
InputCustomers ==
    UNION {Range(hierarchy.customers_by_country[n].customers) :
              n \in 1..Len(hierarchy.customers_by_country)}

InputCustomersOf(country) ==
    UNION {Range(hierarchy.customers_by_country[n].customers) :
              n \in {n \in 1..Len(hierarchy.customers_by_country) :
                        hierarchy.customers_by_country[n].country = country}}

\* The returned employees that are client advisors, by their place in the list.
AdvisorPlaces ==
    {i \in 1..Len(employee_generator.employees) :
        employee_generator.employees[i].position_level = "CLIENT_ADVISOR"}

AssignedTo(i) == employee_generator.employees[i].assigned_customers

\* C17: after generate_employees_and_assignments on a fresh generator with
\* pairwise distinct customer ids, the advisors' lists partition the input
\* customers (together they hold every input customer, and no customer is in
\* two lists or twice in one), an advisor's customers are customers of the
\* advisor's country, no list is longer than 200, and there is exactly one
\* assignment record per customer.
C17_AdvisorsPartitionCustomers ==
    EmployeesReturned =>
        LET assignments == employee_generator.assignments
            assigned == UNION {Range(AssignedTo(i)) : i \in AdvisorPlaces}
            places == UNION {{<<i, k>> : k \in 1..Len(AssignedTo(i))} : i \in AdvisorPlaces}
        IN /\ assigned = InputCustomers
           /\ Cardinality(places) = Cardinality(assigned)
           /\ \A i \in AdvisorPlaces :
                /\ Range(AssignedTo(i)) \subseteq
                       InputCustomersOf(employee_generator.employees[i].country)
                /\ Len(AssignedTo(i)) <= 200
           /\ {assignments[k].customer_id : k \in 1..Len(assignments)} = InputCustomers
           /\ Len(assignments) = Cardinality(InputCustomers)

\* A country of more than 200 customers was split over advisors with a full
\* list and a shorter one, beside another country with customers.
C17_Witness ==
    /\ EmployeesReturned
    /\ \E a, b, c \in EmployeesAt("CLIENT_ADVISOR") :
        /\ a.country = b.country
        /\ Len(a.assigned_customers) = 200
        /\ Len(b.assigned_customers) = 1
        /\ c.country # a.country
        /\ Len(c.assigned_customers) > 0
    /\ Len(employee_generator.assignments) > 400

\* C18: after generate_employees_and_assignments, whatever the distribution
\* of customers over countries, no team leader is the manager of more than
\* 10 client advisors.
C18_TeamLeaderSpan ==
    EmployeesReturned =>
        \A team_leader \in EmployeesAt("TEAM_LEADER") :
            Cardinality(ManagedBy(team_leader, "CLIENT_ADVISOR")) <= 10

\* More advisors than one team leader may manage, and a team leader with 10.
C18_Witness ==
    /\ EmployeesReturned
    /\ Cardinality(EmployeesAt("CLIENT_ADVISOR")) > 10
    /\ Cardinality(EmployeesAt("TEAM_LEADER")) > 1
    /\ \E team_leader \in EmployeesAt("TEAM_LEADER") :
        Cardinality(ManagedBy(team_leader, "CLIENT_ADVISOR")) = 10

\* C19: after generate_employees_and_assignments, whatever the distribution
\* of customers over countries, no super team leader is the manager of more
\* than 10 team leaders.
C19_SuperLeaderSpan ==
    EmployeesReturned =>
        \A super_leader \in EmployeesAt("SUPER_TEAM_LEADER") :
            Cardinality(ManagedBy(super_leader, "TEAM_LEADER")) <= 10

\* More team leaders than one super team leader may manage, shared by two.
C19_Witness ==
    /\ EmployeesReturned
    /\ Cardinality(EmployeesAt("TEAM_LEADER")) > 10
    /\ Cardinality(EmployeesAt("SUPER_TEAM_LEADER")) = 2
    /\ \A super_leader \in EmployeesAt("SUPER_TEAM_LEADER") :
        Cardinality(ManagedBy(super_leader, "TEAM_LEADER")) \in 5..6

\* The employee ids of the returned employees at a level.
IdsAt(position_level) == {e.employee_id : e \in EmployeesAt(position_level)}

\* C24: after generate_employees_and_assignments every super team leader has
\* the empty manager id, the manager id of every team leader is the id of a
\* returned super team leader, the manager id of every client advisor is the id
\* of a returned team leader, and when there is at least one customer there is
\* at least one employee at each of the three levels.
C24_ManagerChain ==
    EmployeesReturned =>
        /\ \A e \in EmployeesAt("SUPER_TEAM_LEADER") : e.manager_employee_id = EmptyText
        /\ \A e \in EmployeesAt("TEAM_LEADER") :
            e.manager_employee_id \in IdsAt("SUPER_TEAM_LEADER")
        /\ \A e \in EmployeesAt("CLIENT_ADVISOR") :
            e.manager_employee_id \in IdsAt("TEAM_LEADER")
        /\ InputCustomers # {} =>
            /\ EmployeesAt("SUPER_TEAM_LEADER") # {}
            /\ EmployeesAt("TEAM_LEADER") # {}
            /\ EmployeesAt("CLIENT_ADVISOR") # {}
        /\ \A i, j \in 1..Len(employee_generator.employees) :
            employee_generator.employees[i].employee_id
                = employee_generator.employees[j].employee_id => i = j

\* A hierarchy with several employees at each level, the team leaders under
\* different super team leaders and the advisors under different team leaders.
C24_Witness ==
    /\ EmployeesReturned
    /\ InputCustomers # {}
    /\ Cardinality({e.manager_employee_id : e \in EmployeesAt("TEAM_LEADER")}) > 1
    /\ Cardinality({e.manager_employee_id : e \in EmployeesAt("CLIENT_ADVISOR")}) > 1


(***************************************************************************)
(* Properties of call_agent_rest_api.                                      *)
(***************************************************************************)
\* The states in which call_agent_rest_api has returned result.
AgentReturned == agent_call.pc = "returned"

\* C20: every return of call_agent_rest_api yields a dict with the keys
\* success, response, error and raw_stream, in which success is true exactly
\* when response is a non-empty text and error is None, and in which, where
\* success is false, error is a non-empty message.
C20_ResultContract ==
    AgentReturned =>
        LET result == agent_call.result
        IN /\ {"success", "response", "error", "raw_stream"} \subseteq DOMAIN result
           /\ result.success <=> (Truthy(result.response) /\ result.error = None)
           /\ ~result.success => Truthy(result.error)

\* Whether a line is the data line [DONE].
IsDone(line) == line.kind = "data" /\ line.payload = "[DONE]"

\* The lines of a response that come before its first [DONE].
RECURSIVE BeforeDone(_)
BeforeDone(lines) ==
    IF lines = <<>> \/ IsDone(Head(lines)) THEN <<>>
    ELSE <<Head(lines)>> \o BeforeDone(Tail(lines))

\* The texts of the data lines among `lines` whose most recent preceding
\* event line names `wanted`, in arrival order; `event` is the event named
\* last before `lines`.
RECURSIVE TextsUnder(_, _, _)
TextsUnder(lines, event, wanted) ==
    IF lines = <<>> THEN <<>>
    ELSE LET line == Head(lines)
         IN IF line.kind = "event" THEN TextsUnder(Tail(lines), line.name, wanted)
            ELSE IF line.kind = "data" /\ line.payload = "json"
                    /\ line.data.text # None /\ event = wanted
                 THEN <<line.data.text[1]>> \o TextsUnder(Tail(lines), event, wanted)
            ELSE TextsUnder(Tail(lines), event, wanted)

\* Whether a data line carries an error: a key error or the status error.
CarriesError(line) ==
    /\ line.kind = "data"
    /\ line.payload = "json"
    /\ line.data.error # None \/ line.data.status = Some("error")

\* The states in which the call has returned after reading a response of
\* status 200.
StreamReturned == AgentReturned /\ agent_call.stream # None

\* C25: where call_agent_rest_api returns after an HTTP 200 response, a
\* successful result's response is the concatenation, in arrival order, of the
\* texts of the data lines before the first [DONE] whose most recent preceding
\* event line is response.text.delta, and there is at least one such line (so
\* no text received under response.thinking.delta or after [DONE] is in it);
\* what was read of the response ends with the first [DONE]; and the call
\* fails when a data line before the first [DONE] carries an error, whatever
\* text was received.  A failed call has no response.
C25_ResponseIsTextDeltas ==
    StreamReturned =>
        LET result == agent_call.result
            processed == BeforeDone(agent_call.stream[1])
            texts == TextsUnder(processed, "", "response.text.delta")
            read == SelectSeq(processed, LAMBDA l : l.kind # "blank")
        IN /\ result.success =>
                /\ texts # <<>>
                /\ result.response = Some(Join(<<>>, texts))
                /\ result.thinking =
                       (IF TextsUnder(processed, "", "response.thinking.delta") = <<>>
                        THEN None
                        ELSE Some(Join(<<>>, TextsUnder(processed, "",
                                                        "response.thinking.delta"))))
                /\ \A k \in 1..Len(processed) : processed[k].kind # "raise"
           /\ ~result.success => result.response = None
           /\ (\E k \in 1..Len(processed) : CarriesError(processed[k])) => ~result.success
           /\ (\A k \in 1..Len(processed) : processed[k].kind # "raise") =>
                \/ result.raw_stream = read /\ Len(processed) = Len(agent_call.stream[1])
                \/ /\ Len(processed) < Len(agent_call.stream[1])
                   /\ result.raw_stream =
                          Append(read, agent_call.stream[1][Len(processed) + 1])
                \/ \E k \in 1..Len(read) :
                    /\ CarriesError(read[k])
                    /\ result.raw_stream = SubSeq(read, 1, k)

\* A successful call whose response had thinking text, two different texts
\* of the answer, and lines after [DONE], an error among them.
C25_Witness ==
    /\ StreamReturned
    /\ agent_call.result.success
    /\ agent_call.result.response = Some(<<"Hi", "Hm">>)
    /\ agent_call.result.thinking = Some(<<"Hm">>)
    /\ \E k \in 1..Len(agent_call.stream[1]) :
        /\ CarriesError(agent_call.stream[1][k])
        /\ \E j \in 1..(k - 1) : IsDone(agent_call.stream[1][j])


(***************************************************************************)
(* Properties of the variance, the record patterns and the stream.         *)
(***************************************************************************)
\* A value rounded to cents, <<units, cents>>, as an amount.
OfCents(rounded) == <<rounded[1], rounded[2] * 100>>

\* Whether a rounded value lies within base * (1 -+ 0.05 * day / num_days),
\* up to the two roundings to cents.
WithinVariance(value, base, day, num_days) ==
    LET band == AddAmt(MulDiv(MulDiv(OfCents(base), 5, 100), day, num_days), <<0, 200>>)
    IN /\ AmtLeq(SubAmt(OfCents(base), band), OfCents(value))
       /\ AmtLeq(OfCents(value), AddAmt(OfCents(base), band))

\* The range (lines 275-283) of the balances of a counterparty type.
BalanceRange(counterparty_type) ==
    CASE counterparty_type = "RETAIL" -> <<5000, 80000>>
      [] counterparty_type = "CORPORATE" -> <<30000, 800000>>
      [] OTHER -> <<100000, 3000000>>

\* C21: the holdings sampled on day `day` are those the same stream gives
\* without variance, each market value moved by a factor within 1 -+ 0.05 *
\* day / num_days, with day < num_days, and are exactly those on day 0; the
\* deposit balances lie in the range drawn for their counterparty type on
\* every day.
C21_VarianceDriver ==
    /\ HoldingsReturned =>
        LET unperturbed == generate_hqla_holdings(gen, ts.entered, ts.current_date,
                                                  <<0, 1>>).df.rows
            rows == df_hqla.rows
        IN /\ ts.day < ts.num_days
           /\ Len(rows) = Len(unperturbed)
           /\ ts.day = 0 => rows = unperturbed
           /\ \A k \in 1..Len(rows) :
                /\ WithinVariance(rows[k].MARKET_VALUE_CHF,
                                  unperturbed[k].MARKET_VALUE_CHF, ts.day, ts.num_days)
                /\ [rows[k] EXCEPT !.MARKET_VALUE_CHF = <<0, 0>>,
                                   !.MARKET_VALUE_CCY = <<0, 0>>]
                   = [unperturbed[k] EXCEPT !.MARKET_VALUE_CHF = <<0, 0>>,
                                            !.MARKET_VALUE_CCY = <<0, 0>>]
    /\ DepositsReturned =>
        \A k \in 1..Len(df_deposits.rows) :
            LET row == df_deposits.rows[k]
                range == BalanceRange(row.COUNTERPARTY_TYPE)
            IN /\ AmtLeq(Amt(range[1]), OfCents(row.BALANCE_CHF))
               /\ AmtLeq(OfCents(row.BALANCE_CHF), Amt(range[2]))

\* The holdings of a day after day 0 have been sampled, and deposits before.
C21_Witness ==
    /\ HoldingsReturned
    /\ ts.day >= 1
    /\ df_hqla.rows # <<>>
    /\ df_deposits.rows # <<>>

\* The category of a holding record, by the words of its asset type code.
EquityLike(r) == "EQUITY" \in Range(r.ASSET_TYPE)
BondLike(r) == ~EquityLike(r) /\ Range(r.ASSET_TYPE) \cap {"BOND", "COVERED"} # {}
CashLike(r) == ~EquityLike(r) /\ ~BondLike(r)

\* The field patterns of the three categories.
EquityPattern(r) ==
    /\ r.ISIN # None
    /\ r.ISIN[1] \in Range(smi_stocks)
    /\ r.QUANTITY # None
    /\ r.QUANTITY[1] >= 100
    /\ r.QUANTITY[1] < 10000
    /\ r.MATURITY_DATE = None
    /\ r.CREDIT_RATING = None

BondPattern(r) ==
    /\ r.ISIN # None
    /\ r.ISIN[1].prefix = r.CURRENCY
    /\ Len(r.ISIN[1].digits) = 8
    /\ r.CREDIT_RATING # None
    /\ r.CREDIT_RATING[1] \in {"AAA", "AA+", "AA", "AA-", "A+", "A", "A-"}
    /\ r.MATURITY_DATE # None
    /\ toordinal(ParseIso(r.MATURITY_DATE[1])) - toordinal(ParseIso(r.AS_OF_DATE))
           \in 365..3649
    /\ r.QUANTITY = None

CashPattern(r) ==
    /\ r.ISIN = None
    /\ r.QUANTITY = None
    /\ r.MATURITY_DATE = None
    /\ r.CREDIT_RATING = None
    /\ r.SECURITY_NAME = [text |-> r.ASSET_TYPE, digits |-> <<>>]

\* C22: every holding record has the field pattern of the category of its
\* asset type, and of no other: equity-like an ISIN of the constituent set, a
\* QUANTITY in [100, 10000), no maturity and no rating; bond-like an ISIN of
\* the currency code and 8 digits, a rating of the rating set, a maturity 365
\* to 3649 days after AS_OF_DATE and no quantity; cash-like none of the four
\* and the asset type code as SECURITY_NAME.
C22_HoldingCategories ==
    HoldingsReturned =>
        \A k \in 1..Len(df_hqla.rows) :
            LET r == df_hqla.rows[k]
            IN /\ EquityLike(r) <=> EquityPattern(r)
               /\ BondLike(r) <=> BondPattern(r)
               /\ CashLike(r) <=> CashPattern(r)

\* A frame with records of the three categories.
C22_Witness ==
    /\ HoldingsReturned
    /\ \E k \in 1..Len(df_hqla.rows) : EquityPattern(df_hqla.rows[k])
    /\ \E k \in 1..Len(df_hqla.rows) : BondPattern(df_hqla.rows[k])
    /\ \E k \in 1..Len(df_hqla.rows) : CashPattern(df_hqla.rows[k])

\* C26: for every asset type of the generator's table the range base_value is
\* drawn from is [5M, 100M) exactly when the type takes the equity branch,
\* [10M, 200M) exactly when it takes the cash branch and [20M, 500M) exactly
\* when it takes the bond branch; so on day 0, where the market value is the
\* base value, the value of a record lies in the range of the branch its
\* fields show.
C26_RangesFollowBranches ==
    /\ InTimeSeries =>
        \A a \in 1..Len(gen.hqla_assets) :
            LET asset_type == gen.hqla_assets[a][1]
                lo == BaseValue(0, asset_type)
                hi == BaseValue(32767, asset_type)
            IN /\ (FloatEq(lo, FloatOfInt(5000000)) /\ FloatLess(hi, FloatOfInt(100000000)))
                    <=> IsEquityBranch(asset_type)
               /\ (FloatEq(lo, FloatOfInt(10000000)) /\ FloatLess(hi, FloatOfInt(200000000)))
                    <=> (~IsEquityBranch(asset_type) /\ ~IsBondBranch(asset_type))
               /\ (FloatEq(lo, FloatOfInt(20000000)) /\ FloatLess(hi, FloatOfInt(500000000))
                        /\ FloatLeq(FloatOfInt(200000000), hi))
                    <=> IsBondBranch(asset_type)
    /\ (HoldingsReturned /\ ts.day = 0) =>
        \A k \in 1..Len(df_hqla.rows) :
            LET r == df_hqla.rows[k]
                value == OfCents(r.MARKET_VALUE_CHF)
                lo == IF r.QUANTITY # None THEN 5000000
                      ELSE IF r.ISIN = None THEN 10000000 ELSE 20000000
                hi == IF r.QUANTITY # None THEN 100000000
                      ELSE IF r.ISIN = None THEN 200000000 ELSE 500000000
            IN /\ AmtLeq(Amt(lo), value)
               /\ AmtLeq(value, Amt(hi))

\* A frame of day 0 in which every asset type of the table occurs.
C26_Witness ==
    /\ HoldingsReturned
    /\ ts.day = 0
    /\ \A a \in 1..Len(gen.hqla_assets) :
        \E k \in 1..Len(df_hqla.rows) : df_hqla.rows[k].ASSET_TYPE = gen.hqla_assets[a][1]

\* C27: in every deposit record IS_INSURED is true exactly when
\* COUNTERPARTY_TYPE is RETAIL, a retail record's CUSTOMER_SEGMENT is MASS or
\* AFFLUENT and every other record's is CORPORATE: none is PRIVATE.
C27_RetailAlwaysInsured ==
    DepositsReturned =>
        \A k \in 1..Len(df_deposits.rows) :
            LET r == df_deposits.rows[k]
            IN /\ r.IS_INSURED <=> r.COUNTERPARTY_TYPE = "RETAIL"
               /\ r.CUSTOMER_SEGMENT # "PRIVATE"
               /\ r.COUNTERPARTY_TYPE = "RETAIL" => r.CUSTOMER_SEGMENT \in {"MASS", "AFFLUENT"}
               /\ r.COUNTERPARTY_TYPE # "RETAIL" => r.CUSTOMER_SEGMENT = "CORPORATE"

\* A call that emitted retail records of both segments and a corporate record.
C27_Witness ==
    /\ DepositsReturned
    /\ \E k \in 1..Len(df_deposits.rows) :
        df_deposits.rows[k].COUNTERPARTY_TYPE = "RETAIL"
        /\ df_deposits.rows[k].CUSTOMER_SEGMENT = "MASS"
    /\ \E k \in 1..Len(df_deposits.rows) :
        df_deposits.rows[k].COUNTERPARTY_TYPE = "RETAIL"
        /\ df_deposits.rows[k].CUSTOMER_SEGMENT = "AFFLUENT"
    /\ \E k \in 1..Len(df_deposits.rows) :
        df_deposits.rows[k].COUNTERPARTY_TYPE = "CORPORATE"

(***************************************************************************)
(* One stream per run.                                                     *)
(***************************************************************************)
\* What a step of the run does to the stream: a sampling call is entered with
\* the stream as the step before left it, the steps between two sampling
\* calls (the call of generate_time_series, the two to_csv) leave it alone.
StreamStep ==
    /\ (pc = "loop" /\ pc' = "hqla_to_csv") => ts'.entered = gen.rng
    /\ (pc = "deposits" /\ pc' = "deposits_to_csv") => ts'.entered = gen.rng
    /\ (pc \in {"call", "hqla_to_csv", "deposits_to_csv"}
            /\ pc' \in {"loop", "deposits", "returned"}) => gen'.rng = gen.rng
    /\ (pc = "loop" /\ pc' = "returned") => gen'.rng = gen.rng

\* What the stream is between the steps: seeded from the seed when the
\* generator is built; after a sampling call, in the state the call leaves
\* when entered with ts.entered, the frame being the one sampled from there;
\* the holdings of day d sampled after 2d files, the deposits after 2d + 1.
StreamState ==
    /\ pc = "call" => gen.rng = default_rng(argv.seed)
    /\ HoldingsReturned =>
        LET g == generate_hqla_holdings(gen, ts.entered, ts.current_date,
                                        DailyVariance(ts.day, ts.num_days))
        IN /\ df_hqla = g.df
           /\ gen.rng = g.rng
           /\ Len(written) = 2 * ts.day
           /\ ts.day = 0 => ts.entered = default_rng(argv.seed)
           /\ ts.day > 0 => ts.entered # default_rng(argv.seed)
    /\ DepositsReturned =>
        LET g == generate_deposit_balances(gen, ts.entered, ts.current_date,
                                           ts.customer_ids)
        IN /\ df_deposits = g.df
           /\ gen.rng = g.rng
           /\ Len(written) = 2 * ts.day + 1
           /\ ts.entered # default_rng(argv.seed)

\* C23: within one run the stream is seeded once, when the generator is
\* built, and never again; the sampling calls consume it in the order holdings
\* of day 0, deposits of day 0, holdings of day 1, ...; each call is entered
\* with the stream in the state the call before it left, so the frames of a
\* day are sampled from a state all earlier days have advanced.
C23_SingleStream == []StreamState /\ [][StreamStep]_vars

\* The holdings of a later day have been sampled, days of holdings and
\* deposits lying before them.
C23_Witness ==
    /\ HoldingsReturned
    /\ ts.day >= 1
    /\ df_hqla.rows # <<>>
    /\ Len(written) = 2 * ts.day

(***************************************************************************)
(* The target LCR.                                                         *)
(***************************************************************************)
\* C28: the generator of a run holds the reference tables whatever its
\* target_lcr, which it only stores; and a second run of the command that
\* differs from the first in --target-lcr alone (same seed, start date, number
\* of days and customer list) writes the same files with the same contents and
\* returns the same totals.
C28_TargetLcrIgnored ==
    /\ InTimeSeries =>
        /\ gen.target_lcr = argv.target_lcr
        /\ gen.hqla_assets = ReferenceTables.hqla_assets
        /\ gen.deposit_types = ReferenceTables.deposit_types
        /\ gen.currencies = ReferenceTables.currencies
    /\ (pc = "returned" /\ prev # None
            /\ argv.target_lcr # prev[1].argv.target_lcr
            /\ [argv EXCEPT !.target_lcr = prev[1].argv.target_lcr] = prev[1].argv
            /\ main.start_date = prev[1].start_date
            /\ main.customer_ids = prev[1].customer_ids
            /\ main.actual_num_customers = prev[1].actual_num_customers) =>
                /\ prev[1].error = None
                /\ written = prev[1].written
                /\ FilesWritten = prev[1].files
                /\ ts.total_hqla = prev[1].total_hqla
                /\ ts.total_deposits = prev[1].total_deposits

\* A second run of two days with another target LCR than the first and all
\* else the same, both having written four files with records.
C28_Witness ==
    /\ pc = "returned"
    /\ prev # None
    /\ argv.target_lcr = 105
    /\ prev[1].argv.target_lcr = 95
    /\ [argv EXCEPT !.target_lcr = 95] = prev[1].argv
    /\ main.customer_ids # None
    /\ Len(written) = 4
    /\ Len(prev[1].written) = 4
    /\ ts.total_hqla > 0
    /\ ts.total_deposits > 0

=============================================================================
